---------------------------- MODULE Spec2Model ----------------------------
(***************************************************************************)
(* A model of the spacetraders fleet controller: the event queue           *)
(* (flow/queue.py), the scheduler loop (flow/scheduler.py), the dispatcher *)
(* (policy/dispatcher.py) and the executor (policy/executor.py) over the   *)
(* warehouse cache (data/warehouse.py) and a remote game server.           *)
(*                                                                         *)
(* Time is a natural number of units of 25 ms; an ISO-8601 UTC             *)
(* timestamp string of the program is the number of units it denotes, and  *)
(* NoTs stands for a timestamp that is None or the empty string.           *)
(***************************************************************************)
EXTENDS Integers, Sequences, FiniteSets, TLC

VARIABLES
    heap,        \* MinHeap.heap: the list heapq keeps, of <<priority, sequence, item>>
    sequence,    \* MinHeap._sequence
    lastOp,      \* history: the operation that ran last
    returned,    \* history: the heap entry whose item the last extract_min returned
    pushLog,     \* history: the entries pushed, in push order
    popLog,      \* history: the entries extracted, in extraction order
    build,       \* which members the classes carry: "src" or "spec" (see Builds)
    now,         \* the UTC clock
    ships,       \* Warehouse.ships_by_symbol: the cached ships
    runtime,     \* Warehouse.runtime: the per-ship ShipRuntime
    markets,     \* Warehouse.market_prices_by_waypoint: the cached snapshots
    obs,         \* Warehouse.goods_observations, per good
    wpKnown,     \* the waypoints in Warehouse.waypoints_by_symbol / full_waypoints_by_symbol
    remote,      \* the game server's ships
    call,        \* history: the dispatcher call, the scheduler step or the request that ran last
    pc,          \* where the program is: "off", "boot", "loop", "stopped", "crashed", "exited";
                 \* with several threads writing to the storage, where each of them is
    bucket,      \* RequestHandler.limiter: the times of the requests it let through
    storage,     \* SQLiteStorage: the rows of its two tables and _last_cleanup_time
    ledger       \* the agent's credits at the server, Warehouse.credits and the lines of logs/trades.log

queueVars == <<heap, sequence, returned, pushLog, popLog>>
worldVars == <<build, now, ships, runtime, markets, obs, wpKnown, remote>>
histVars == <<call, pc>>
vars == <<heap, sequence, lastOp, returned, pushLog, popLog,
          build, now, ships, runtime, markets, obs, wpKnown, remote, call, pc, bucket,
          storage, ledger>>

-----------------------------------------------------------------------------
(* Bounds of the model.                                                    *)

MaxPush == 4         \* pushes in one behaviour of the queue specification
MaxPrio == 2         \* priorities of the queue specification are 0..MaxPrio

ShipSymbols == {"S1", "S2"}

NoEntry == <<-1, -1, "">>

\* a timestamp that is None or ""
NoTs == -1

-----------------------------------------------------------------------------
(* The game world of the model: one system with two marketplaces and one   *)
(* asteroid on a line, two goods, and the data the server answers with.    *)

Marketplaces == {"W1", "W2"}
Mineables == {"M1"}
Waypoints == Marketplaces \cup Mineables
Goods == {"ORE", "ICE"}

\* the order in which the server lists the marketplaces of the system
MarketOrder == <<"W1", "W2">>

\* the x coordinate of a waypoint (y is 0 for all)
WpX(w) == CASE w = "W1" -> 0 [] w = "M1" -> 1 [] w = "W2" -> 3 [] OTHER -> 0

\* float("inf")
Inf == 99

Abs(n) == IF n < 0 THEN 0 - n ELSE n

\* ship.fuel.capacity and ship.cargo.capacity by role: probes carry neither
FuelCapacity(role) == IF role = "EXCAVATOR" THEN 2 ELSE 0
CargoCapacity(role) == IF role = "EXCAVATOR" THEN 2 ELSE 0

\* the market data the server holds for a marketplace: the purchase price of
\* FUEL (0: not sold there) and the sell price of each good (0: not bought)
ServerMarket(w) ==
    IF w = "W1"
    THEN [fuel |-> 5, sell |-> [g \in Goods |-> IF g = "ORE" THEN 20 ELSE 5]]
    ELSE [fuel |-> 0, sell |-> [g \in Goods |-> IF g = "ICE" THEN 12 ELSE 0]]

Inventories == {inv \in [Goods -> 0..2] : inv["ORE"] + inv["ICE"] <= 2}
EmptyInventory == [g \in Goods |-> 0]
Units(inv) == inv["ORE"] + inv["ICE"]

NoShip == [present |-> FALSE]
NoRuntime == [present |-> FALSE]
NoSnapshot == [seen |-> FALSE]
NoContext == [target_market |-> "", selling |-> FALSE, destination |-> "", mine_target |-> ""]
NoObservation == [n |-> 0, best |-> 0]
NoCall == [op |-> "none", sym |-> ""]
NoStorage == [obs |-> <<>>, tx |-> <<>>, last |-> 0, writes |-> 0]
NoLedger == [agent |-> 0, credits |-> 0, trades |-> <<>>]

-----------------------------------------------------------------------------
(* flow/queue.py: MinHeap over heapq.                                      *)

\* Python's order on str, for the ship symbols of the model.
SymbolRank(item) == CASE item = "S1" -> 1 [] item = "S2" -> 2 [] OTHER -> 0

\* Python's order on the tuples (priority, sequence, item).
TupleLess(a, b) ==
    \/ a[1] < b[1]
    \/ a[1] = b[1] /\ a[2] < b[2]
    \/ a[1] = b[1] /\ a[2] = b[2] /\ SymbolRank(a[3]) < SymbolRank(b[3])

\* heapq._siftdown(heap, startpos, pos), holding newitem; positions from 1.
RECURSIVE SiftDownFrom(_, _, _, _)
SiftDownFrom(h, startpos, pos, newitem) ==
    IF pos > startpos /\ TupleLess(newitem, h[pos \div 2])
    THEN SiftDownFrom([h EXCEPT ![pos] = h[pos \div 2]], startpos, pos \div 2, newitem)
    ELSE [h EXCEPT ![pos] = newitem]

SiftDown(h, startpos, pos) == SiftDownFrom(h, startpos, pos, h[pos])

\* heapq._siftup(heap, pos): move the smaller child up until a leaf, then sift
\* the displaced item down from there.
RECURSIVE SiftUpFrom(_, _, _, _)
SiftUpFrom(h, startpos, pos, newitem) ==
    LET childpos == 2 * pos
        rightpos == childpos + 1
        pick == IF rightpos <= Len(h) /\ ~TupleLess(h[childpos], h[rightpos])
                THEN rightpos ELSE childpos
    IN  IF childpos <= Len(h)
        THEN SiftUpFrom([h EXCEPT ![pos] = h[pick]], startpos, pick, newitem)
        ELSE SiftDownFrom([h EXCEPT ![pos] = newitem], startpos, pos, newitem)

SiftUp(h, pos) == SiftUpFrom(h, pos, pos, h[pos])

HeapPushNoSift(h, entry) == Append(h, entry)

\* heapq.heappush(heap, item)
HeapPush(h, entry) == SiftDown(Append(h, entry), 1, Len(h) + 1)

\* heapq.heappop(heap): the entry returned
HeapTop(h) == IF Len(h) = 1 THEN h[Len(h)] ELSE h[1]

HeapRestKeepsAll(h) == h

\* heapq.heappop(heap): the heap left
HeapRest(h) ==
    IF Len(h) = 1 THEN <<>>
    ELSE SiftUp([SubSeq(h, 1, Len(h) - 1) EXCEPT ![1] = h[Len(h)]], 1)

NextSequenceStuck(seq) == seq

\* MinHeap.insert: self._sequence += 1
NextSequence(seq) == seq + 1

\* MinHeap.insert(item, priority): the heap after it
InsertHeap(h, seq, item, priority) == HeapPush(h, <<priority, NextSequence(seq), item>>)

\* MinHeap.insert(item, priority)
Insert(item, priority) ==
    /\ Len(pushLog) < MaxPush
    /\ sequence' = NextSequence(sequence)
    /\ heap' = InsertHeap(heap, sequence, item, priority)
    /\ pushLog' = Append(pushLog, <<priority, NextSequence(sequence), item>>)
    /\ lastOp' = "insert"
    /\ UNCHANGED <<returned, popLog>>
    /\ UNCHANGED <<worldVars, histVars, bucket, storage, ledger>>

\* MinHeap.extract_min()
ExtractMin ==
    /\ lastOp' = "extract_min"
    /\ IF heap = <<>>
       THEN /\ returned' = NoEntry
            /\ UNCHANGED <<heap, popLog>>
       ELSE /\ returned' = HeapTop(heap)
            /\ heap' = HeapRest(heap)
            /\ popLog' = Append(popLog, HeapTop(heap))
    /\ UNCHANGED <<sequence, pushLog>>
    /\ UNCHANGED <<worldVars, histVars, bucket, storage, ledger>>

\* MinHeap.__init__
EmptyQueue ==
    /\ heap = <<>>
    /\ sequence = 0
    /\ returned = NoEntry
    /\ pushLog = <<>>
    /\ popLog = <<>>

\* Warehouse(): every cache empty; the queue on its own has no fleet
EmptyWarehouse ==
    /\ ships = [s \in ShipSymbols |-> NoShip]
    /\ runtime = [s \in ShipSymbols |-> NoRuntime]
    /\ markets = [w \in Waypoints |-> NoSnapshot]
    /\ obs = [g \in Goods |-> NoObservation]
    /\ wpKnown = {}

InitQueue ==
    /\ EmptyQueue
    /\ EmptyWarehouse
    /\ lastOp = "init"
    /\ build = "src"
    /\ now = 0
    /\ remote = [s \in ShipSymbols |-> NoShip]
    /\ call = NoCall
    /\ bucket = <<>>
    /\ storage = NoStorage
    /\ ledger = NoLedger
    /\ pc = "off"

NextQueue ==
    \/ \E item \in ShipSymbols, priority \in 0..MaxPrio : Insert(item, priority)
    \/ ExtractMin

SpecQueue == InitQueue /\ [][NextQueue]_vars

-----------------------------------------------------------------------------
(* The server and the warehouse cache.                                      *)

\* Builds.  The classes under src/ disagree with their callers: ShipCooldown
\* has no field expiration, and Markets.find_best_marketplace_for_cargo takes
\* no min_sell_price.  In the build "src" the classes are exactly those of
\* src/; in the build "spec" the Ship model carries cooldown.expiration and
\* the members src/ lacks behave as the specification describes them.
Builds == {"src", "spec"}

\* the outcomes of a remote call: GETs answer or raise; a POST also may answer
\* with an error payload
ApiOutcomes ==
    {[get |-> "ok", post |-> "ok"], [get |-> "ok", post |-> "error"],
     [get |-> "ok", post |-> "raise"], [get |-> "raise", post |-> "raise"]}
ApiOk == [get |-> "ok", post |-> "ok"]

\* the ship the server reports: a ship in transit has arrived at its arrival time
ServerShip(r, t) ==
    IF r.status = "IN_TRANSIT" /\ r.arrival <= t THEN [r EXCEPT !.status = "IN_ORBIT"] ELSE r

\* Ship.from_dict on the server's payload
FromDict(r) ==
    [present |-> TRUE, role |-> r.role, wp |-> r.wp, status |-> r.status,
     arrival |-> r.arrival, fuel |-> r.fuel, units |-> Units(r.inv), cd |-> r.cd]

\* Navigation._refresh_ship: the cached ship it stores and returns
RefreshShip(r, t) == FromDict(ServerShip(r, t))

\* Navigation._waypoint_distance over the cached coordinates
WaypointDistance(known, a, b) ==
    IF a \notin known \/ b \notin known THEN Inf ELSE Abs(WpX(a) - WpX(b))

\* the loops "if best_dist is None or dist < best_dist": the first candidate,
\* in list order, of least distance; "" when there is none
Nearest(known, cur, cands) ==
    IF cands = <<>> THEN ""
    ELSE LET d(i) == WaypointDistance(known, cur, cands[i])
             best == CHOOSE i \in DOMAIN cands :
                        /\ \A j \in DOMAIN cands : d(i) <= d(j)
                        /\ \A j \in 1..(i - 1) : d(j) > d(i)
         IN  cands[best]

\* the keys of market_prices_by_waypoint in the dict's order: by first insertion
SnapshotOrder(mk) ==
    LET seen == {w \in Marketplaces : mk[w].seen}
        first == {w \in seen : \A v \in seen : mk[w].rank <= mk[v].rank}
    IN  IF seen = {} THEN <<>>
        ELSE IF Cardinality(seen) = 1 THEN <<CHOOSE w \in seen : TRUE>>
        ELSE LET a == CHOOSE w \in first : TRUE IN <<a, CHOOSE w \in seen : w # a>>

\* Warehouse.get_best_sell_observation and the snapshot fallback of _is_worthy
IsWorthy(g, mk, ob, minPrice) ==
    IF ob[g].n > 0 THEN ob[g].best > minPrice
    ELSE \E w \in Marketplaces : mk[w].seen /\ mk[w].sell[g] > minPrice

-----------------------------------------------------------------------------
(* The game server: what its endpoints do to a ship.  Each yields the ship   *)
(* after the call and whether the answer is an error payload.               *)

\* durations, in units of 25 ms: flight per unit of distance, and the cooldown
\* of an extraction
TravelTime(dist, mode) == dist * (IF mode = "CRUISE" THEN 21 ELSE 42)
CooldownTime == 25

\* the fuel a flight burns: the distance in CRUISE, one unit in DRIFT
FuelCost(rs, target) ==
    IF FuelCapacity(rs.role) = 0 THEN 0
    ELSE IF rs.mode = "CRUISE" THEN Abs(WpX(rs.wp) - WpX(target)) ELSE 1

Answer(rs, err) == [rs |-> rs, err |-> err]

\* POST /my/ships/{symbol}/orbit
SrvOrbit(rs, t) ==
    LET cur == ServerShip(rs, t)
    IN  IF cur.status = "IN_TRANSIT" THEN Answer(rs, "4214")
        ELSE Answer([cur EXCEPT !.status = "IN_ORBIT"], "")

\* POST /my/ships/{symbol}/dock
SrvDock(rs, t) ==
    LET cur == ServerShip(rs, t)
    IN  IF cur.status = "IN_TRANSIT" THEN Answer(rs, "4214")
        ELSE Answer([cur EXCEPT !.status = "DOCKED"], "")

\* PATCH /my/ships/{symbol}/nav
SrvSetFlightMode(rs, mode) == Answer([rs EXCEPT !.mode = mode], "")

\* POST /my/ships/{symbol}/navigate
SrvNavigate(rs, target, t) ==
    LET cur == ServerShip(rs, t)
        cost == FuelCost(cur, target)
    IN  IF cur.status = "IN_TRANSIT" THEN Answer(rs, "4214")
        ELSE IF cur.status = "DOCKED" THEN Answer(rs, "4236")
        ELSE IF cur.wp = target THEN Answer(rs, "4204")
        ELSE IF cur.fuel < cost THEN Answer(rs, "4203")
        ELSE Answer([cur EXCEPT !.status = "IN_TRANSIT", !.wp = target,
                                !.arrival = t + TravelTime(Abs(WpX(cur.wp) - WpX(target)), cur.mode),
                                !.fuel = cur.fuel - cost], "")

\* POST /my/ships/{symbol}/refuel
SrvRefuel(rs, t) ==
    LET cur == ServerShip(rs, t)
    IN  IF cur.status = "DOCKED" /\ cur.wp \in Marketplaces /\ ServerMarket(cur.wp).fuel > 0
        THEN Answer([cur EXCEPT !.fuel = FuelCapacity(cur.role)], "")
        ELSE Answer(rs, "4000")

\* POST /my/ships/{symbol}/extract, yielding one unit of good
SrvExtract(rs, good, t) ==
    LET cur == ServerShip(rs, t)
    IN  IF /\ cur.status = "IN_ORBIT" /\ cur.wp \in Mineables
           /\ cur.cd <= t /\ Units(cur.inv) < CargoCapacity(cur.role)
        THEN Answer([cur EXCEPT !.inv[good] = cur.inv[good] + 1, !.cd = t + CooldownTime], "")
        ELSE Answer(rs, "4000")

\* POST /my/ships/{symbol}/sell of every good the market buys
SrvSellAll(rs, t) ==
    LET cur == ServerShip(rs, t)
    IN  IF cur.status = "DOCKED" /\ cur.wp \in Marketplaces
        THEN Answer([cur EXCEPT !.inv = [g \in Goods |->
                        IF ServerMarket(cur.wp).sell[g] > 0 THEN 0 ELSE cur.inv[g]]], "")
        ELSE Answer(rs, "4000")

\* POST /my/ships/{symbol}/jettison of every good of gs
SrvJettison(rs, gs) ==
    Answer([rs EXCEPT !.inv = [g \in Goods |-> IF g \in gs THEN 0 ELSE rs.inv[g]]], "")

-----------------------------------------------------------------------------
(* policy/dispatcher.py                                                     *)

\* reading ship.cooldown.expiration: an AttributeError where ShipCooldown has
\* no such field
CooldownExpirationRaises == build = "src"

ReadinessNow(rt, ship, t) == [raised |-> FALSE, ts |-> t]

ReadinessStale(rt, ship, t) ==
    LET Max(a, b) == IF a >= b THEN a ELSE b
        Or(ts) == IF ts = NoTs THEN t ELSE ts
    IN  IF rt.present /\ rt.next_wakeup_ts # NoTs
        THEN [raised |-> FALSE, ts |-> rt.next_wakeup_ts]
        ELSE IF ~ship.present
        THEN [raised |-> FALSE, ts |-> t]
        ELSE IF CooldownExpirationRaises
        THEN [raised |-> TRUE, ts |-> NoTs]
        ELSE [raised |-> FALSE, ts |-> Max(Max(Or(ship.arrival), Or(ship.cd)), t)]

\* Dispatcher.shipReadiness(symbol): the timestamp returned, or the raise
Readiness(rt, ship, t) ==
    LET Max(a, b) == IF a >= b THEN a ELSE b
        Or(ts) == IF ts = NoTs THEN t ELSE ts
    IN  IF rt.present /\ rt.next_wakeup_ts # NoTs
        THEN [raised |-> FALSE, ts |-> Max(rt.next_wakeup_ts, t)]
        ELSE IF ~ship.present
        THEN [raised |-> FALSE, ts |-> t]
        ELSE IF CooldownExpirationRaises
        THEN [raised |-> TRUE, ts |-> NoTs]
        ELSE [raised |-> FALSE, ts |-> Max(Max(Or(ship.arrival), Or(ship.cd)), t)]

\* shipReadiness(s) on the warehouse as it stands
ShipReadiness(s) == Readiness(runtime[s], ships[s], now)

\* the set exclude of decide_next_action: every runtime's string target_market
ExcludedTargets ==
    {runtime[x].ctx.target_market :
        x \in {y \in ShipSymbols : runtime[y].present /\ runtime[y].ctx.target_market # ""}}

\* Markets.find_oldest_marketplace(symbol, exclude): the marketplace, not
\* excluded, whose cached snapshot was seen longest ago; "" when there is none
FindOldestMarketplace(exclude) ==
    LET cands == SelectSeq(MarketOrder, LAMBDA w : markets[w].seen /\ w \notin exclude)
    IN  IF cands = <<>> THEN ""
        ELSE LET i == CHOOSE i \in DOMAIN cands :
                        /\ \A j \in DOMAIN cands : markets[cands[i]].seenAt <= markets[cands[j]].seenAt
                        /\ \A j \in 1..(i - 1) : markets[cands[j]].seenAt > markets[cands[i]].seenAt
             IN  cands[i]

\* the probe's choice in decide_next_action: find_nearest_unvisited_marketplace,
\* else find_oldest_marketplace, else find_nearest_marketplace, each skipping
\* the excluded targets; "" when find_nearest_marketplace raises ValueError
ProbeTarget(s, exclude) ==
    LET cur == RefreshShip(remote[s], now).wp
        known == wpKnown \cup Marketplaces
        unvisited == Nearest(known, cur,
                        SelectSeq(MarketOrder, LAMBDA w : ~markets[w].seen /\ w \notin exclude))
        oldest == FindOldestMarketplace(exclude)
        nearest == Nearest(known, cur, SelectSeq(MarketOrder, LAMBDA w : w \notin exclude))
    IN  IF unvisited # "" THEN unvisited ELSE IF oldest # "" THEN oldest ELSE nearest

\* the excavator's loop over the cached snapshots: the nearest marketplace,
\* from the cached position, whose snapshot buys a good of the server-side
\* cargo above minPrice; "" when there is none
NearestCachedBuyer(s, minPrice) ==
    LET cargo_syms == {g \in Goods : remote[s].inv[g] > 0}
        buys(w) == \E g \in cargo_syms : markets[w].sell[g] > minPrice
    IN  Nearest(wpKnown, ships[s].wp, SelectSeq(SnapshotOrder(markets), buys))

\* Markets.find_best_marketplace_for_cargo(symbol, min_sell_price): a TypeError
\* with the signature of src/; else the nearest cached buyer
FindBestMarketplaceForCargo(s, api, minPrice) ==
    IF build = "src" \/ api.get = "raise"
    THEN [raised |-> TRUE, target |-> ""]
    ELSE [raised |-> FALSE, target |-> NearestCachedBuyer(s, minPrice)]

\* _jettison_unworthy(min_price): whether it reports a jettison, the server's
\* inventory after it, and the jettison calls it issued
JettisonUnworthy(s, api, minPrice) ==
    LET inv == remote[s].inv
        unworthy == {g \in Goods : inv[g] > 0 /\ ~IsWorthy(g, markets, obs, minPrice)}
        issued == {<<"jettison", g>> : g \in unworthy}
    IN  IF api.get = "raise" \/ unworthy = {}
        THEN [did |-> FALSE, inv |-> inv, posts |-> {}]
        ELSE IF api.post = "ok"
        THEN [did |-> TRUE, inv |-> [g \in Goods |-> IF g \in unworthy THEN 0 ELSE inv[g]],
              posts |-> issued]
        ELSE [did |-> api.post = "error", inv |-> inv, posts |-> issued]

\* what a call of decide_next_action yields: the action returned ("RAISE" when
\* an exception leaves the call), the ship's runtime context, the cached ship,
\* the cached waypoints and the server-side inventory after the call, and the
\* state-changing remote calls it issued
Decision(ret, ctx, ship, known, inv, posts) ==
    [ret |-> ret, ctx |-> ctx, ship |-> ship, known |-> known, inv |-> inv, posts |-> posts]

\* decide_next_action, state IDLE, role SATELLITE (lines 99-118)
DecideProbe(s, api) ==
    LET ctx == runtime[s].ctx
        inv == remote[s].inv
        target == ProbeTarget(s, ExcludedTargets)
    IN  IF api.get = "raise"
        THEN Decision("NOOP", ctx, ships[s], wpKnown, inv, {})
        ELSE IF target = ""
        THEN Decision("NOOP", ctx, RefreshShip(remote[s], now), wpKnown \cup Marketplaces, inv, {})
        ELSE Decision("PROBE_VISIT_MARKET", [ctx EXCEPT !.target_market = target],
                      RefreshShip(remote[s], now), wpKnown \cup Marketplaces, inv, {})

\* decide_next_action, state IDLE, role EXCAVATOR (lines 120-245)
DecideExcavator(s, api) ==
    LET ship == ships[s]
        ctx == runtime[s].ctx
        inv == remote[s].inv
        buyer == IF api.get = "raise" THEN "" ELSE NearestCachedBuyer(s, 10)
        best == FindBestMarketplaceForCargo(s, api, 10)
        jett == JettisonUnworthy(s, api, 10)
        Same(ret, c) == Decision(ret, c, ship, wpKnown, inv, {})
    IN  IF ctx.selling
        THEN IF ship.units > 0
             THEN IF ctx.target_market # "" THEN Same("PROBE_VISIT_MARKET", ctx)
                  ELSE IF buyer # ""
                  THEN Same("PROBE_VISIT_MARKET", [ctx EXCEPT !.target_market = buyer])
                  ELSE Same("NAVIGATE_TO_MINE", ctx)
             ELSE Same("NAVIGATE_TO_MINE", [ctx EXCEPT !.selling = FALSE, !.target_market = ""])
        ELSE IF ship.units < CargoCapacity(ship.role)
        THEN Decision("NAVIGATE_TO_MINE", ctx, ship, wpKnown, jett.inv, jett.posts)
        ELSE IF best.raised THEN Same("NOOP", ctx)
        ELSE IF best.target # ""
        THEN Same("PROBE_VISIT_MARKET", [ctx EXCEPT !.target_market = best.target, !.selling = TRUE])
        ELSE Decision(IF jett.did THEN "NAVIGATE_TO_MINE" ELSE "NOOP",
                      ctx, ship, wpKnown, jett.inv, jett.posts)

\* decide_next_action, state NAVIGATING (lines 248-271); _waypoint_has_trait
\* fetches and caches the detail of a waypoint that is not cached
DecideNavigating(s, api) ==
    LET ship == ships[s]
        ctx == runtime[s].ctx
        inv == remote[s].inv
        Same(ret, known) == Decision(ret, ctx, ship, known, inv, {})
    IN  IF ctx.destination # "MINE" \/ ship.status = "IN_TRANSIT" THEN Same("NOOP", wpKnown)
        ELSE IF ship.wp \notin wpKnown /\ api.get = "raise" THEN Same("NOOP", wpKnown)
        ELSE IF ship.wp \in Mineables /\ (ctx.mine_target = "" \/ ctx.mine_target = ship.wp)
        THEN Same("EXTRACT_MINERALS", wpKnown \cup {ship.wp})
        ELSE Same("NOOP", wpKnown \cup {ship.wp})

\* Dispatcher.decide_next_action(symbol)
DecideNextAction(s, api) ==
    LET ship == ships[s]
        rt == runtime[s]
        inv == remote[s].inv
    IN  IF ~ship.present \/ ~rt.present
        THEN Decision("NOOP", IF rt.present THEN rt.ctx ELSE NoContext, ship, wpKnown, inv, {})
        ELSE IF CooldownExpirationRaises
        THEN Decision("RAISE", rt.ctx, ship, wpKnown, inv, {})
        ELSE IF rt.state = "IDLE"
        THEN IF /\ ship.fuel < FuelCapacity(ship.role)
                /\ markets[ship.wp].seen /\ markets[ship.wp].fuel > 0
                /\ ship.status # "IN_TRANSIT"
             THEN Decision("REFUEL", rt.ctx, ship, wpKnown, inv, {})
             ELSE IF ship.role = "SATELLITE" THEN DecideProbe(s, api)
             ELSE IF ship.role = "EXCAVATOR" THEN DecideExcavator(s, api)
             ELSE Decision("NOOP", rt.ctx, ship, wpKnown, inv, {})
        ELSE IF rt.state = "NAVIGATING" THEN DecideNavigating(s, api)
        ELSE IF ship.units < CargoCapacity(ship.role)
        THEN Decision("EXTRACT_MINERALS", rt.ctx, ship, wpKnown, inv, {})
        ELSE Decision("NOOP", rt.ctx, ship, wpKnown, inv, {})

-----------------------------------------------------------------------------
(* logic/navigation.py, logic/markets.py, logic/navigation_algorithms.py:    *)
(* the helpers of the executor.  They work on the world of one ship: its    *)
(* cached ship, its runtime, the server's ship, the caches and the clock.   *)

\* durations of the program, in units of 25 ms
Seconds5 == 200
Seconds10 == 400
Seconds30 == 1200

World(s) ==
    [ship |-> ships[s], rt |-> runtime[s], rs |-> remote[s], mk |-> markets, ob |-> obs,
     known |-> wpKnown, t |-> now, navs |-> <<>>]

\* what a handler yields: the world after it and whether an exception left it
Outcome(w, raised) == [w |-> w, raised |-> raised]

\* Navigation._refresh_ship
Refresh(w) == [w EXCEPT !.ship = RefreshShip(w.rs, w.t)]

\* the server's ship replaced and the cache refreshed from it
Refreshed(w, rs) == [w EXCEPT !.rs = rs, !.ship = RefreshShip(rs, w.t)]

\* Navigation._ensure_orbit
EnsureOrbit(w) ==
    IF ServerShip(w.rs, w.t).status = "DOCKED"
    THEN Refreshed(w, SrvOrbit(w.rs, w.t).rs) ELSE Refresh(w)

\* Navigation._ensure_docked
EnsureDocked(w) ==
    IF ServerShip(w.rs, w.t).status = "IN_ORBIT"
    THEN Refreshed(w, SrvDock(w.rs, w.t).rs) ELSE Refresh(w)

\* Navigation._maybe_set_flight_mode
MaybeSetFlightMode(w, mode) ==
    IF w.rs.mode # mode THEN Refreshed(w, SrvSetFlightMode(w.rs, mode).rs) ELSE Refresh(w)

\* Markets.refuel_if_available
RefuelIfAvailable(w) ==
    LET Refuel(docked) == Refreshed(docked, SrvRefuel(docked.rs, docked.t).rs)
    IN  Refuel(EnsureDocked(w))

\* Warehouse.upsert_market_snapshot of the server's market data for waypoint wp
UpsertSnapshot(mk, wp, t) ==
    [mk EXCEPT ![wp] = [seen |-> TRUE, fuel |-> ServerMarket(wp).fuel,
                        sell |-> ServerMarket(wp).sell, seenAt |-> t,
                        rank |-> IF mk[wp].seen THEN mk[wp].rank
                                 ELSE 1 + Cardinality({v \in Waypoints : mk[v].seen})]]

\* the observations a list can hold in the model
MaxObs == 2

\* Warehouse.record_good_observation for each trade good of the market of wp
RecordObservations(ob, wp) ==
    [g \in Goods |->
        IF ServerMarket(wp).sell[g] > 0
        THEN [n |-> IF ob[g].n < MaxObs THEN ob[g].n + 1 ELSE MaxObs,
              best |-> IF ob[g].n > 0 /\ ob[g].best >= ServerMarket(wp).sell[g]
                       THEN ob[g].best ELSE ServerMarket(wp).sell[g]]
        ELSE ob[g]]

\* FleetAPI.navigate_ship(symbol, target): the answer, and the world with the
\* call on record
NavigateShip(w, target) ==
    LET Answered(nav) ==
            [nav |-> nav,
             w |-> [w EXCEPT !.navs = Append(@, [to |-> target, mode |-> w.rs.mode,
                                                 err |-> nav.err])]]
    IN  Answered(SrvNavigate(w.rs, target, w.t))

\* Navigation.navigate_in_system(symbol, waypoint)
NavigateInSystem(w, target) ==
    LET Called(c) == Refreshed(c.w, c.nav.rs)
        Go(orbit) == Called(NavigateShip(orbit, target))
        From(here) == IF here.ship.wp = target THEN here ELSE Go(EnsureOrbit(w))
    IN  From(Refresh(w))

\* Navigation.wait_until_arrival: polls until the ship is no longer in transit
WaitUntilArrival(w) ==
    LET Land(cur) ==
            IF cur.status = "IN_TRANSIT"
            THEN Refresh([w EXCEPT !.t = cur.arrival, !.known = w.known \cup {cur.wp}])
            ELSE Refresh(w)
    IN  Land(ServerShip(w.rs, w.t))

-----------------------------------------------------------------------------
(* policy/executor.py.  Every handler takes the world of its ship and api,   *)
(* "ok" when the remote calls of the tick answer and "raise" when they       *)
(* raise a transport exception; error payloads are the server's answers.    *)

ApiPhases == {"ok", "raise"}

\* NavigationAlgorithms.list_mineable_waypoints_sorted: closest first
MineableOrder == <<"M1">>
ListMineableWaypointsSorted(w) ==
    SortSeq(MineableOrder, LAMBDA a, b :
        Abs(WpX(w.ship.wp) - WpX(a)) < Abs(WpX(w.ship.wp) - WpX(b)))

\* the first candidate CRUISE can reach by the cached distance; "" if none
CruiseTarget(w, candidates) ==
    LET ok == {i \in DOMAIN candidates :
                  /\ WaypointDistance(w.known, w.ship.wp, candidates[i]) # Inf
                  /\ WaypointDistance(w.known, w.ship.wp, candidates[i]) <= w.ship.fuel}
    IN  IF ok = {} THEN "" ELSE candidates[CHOOSE i \in ok : \A j \in ok : i <= j]

\* attempt(target, mode) of _navigate_to_mine: after a navigate that the
\* server accepted, it reads the ship the warehouse cached before the call
Attempt(w, target, mode) ==
    LET Land (ready, nav) ==
            IF nav.err # "" THEN [ok |-> FALSE, w |-> ready]
            ELSE IF ready.ship.status = "IN_TRANSIT" /\ ready.ship.wp = target
            THEN [ok |-> TRUE,
                  w |-> [ready EXCEPT !.rs = nav.rs, !.rt.state = "NAVIGATING",
                                      !.rt.ctx.destination = "MINE",
                                      !.rt.ctx.mine_target = target]]
            ELSE [ok |-> FALSE, w |-> [ready EXCEPT !.rs = nav.rs]]
        Called(c) == Land(c.w, c.nav)
        Go(ready) == Called(NavigateShip(ready, target))
    IN  Go(MaybeSetFlightMode(EnsureOrbit(w), mode))

\* NavigationAlgorithms.find_closest_refuel_waypoint; "" when it raises
FindClosestRefuelWaypoint(w) ==
    LET Sells(mk, x) == mk[x].seen /\ mk[x].fuel > 0
        Pick(fetched, cur, seen) ==
            IF seen = <<>> THEN [wp |-> "", w |-> fetched]
            ELSE IF build = "src"
            THEN [wp |-> "", w |-> [fetched EXCEPT !.known = @ \cup {seen[i] : i \in DOMAIN seen}]]
            ELSE [wp |-> Nearest(Waypoints, cur, seen),
                  w |-> [fetched EXCEPT !.known = @ \cup {seen[i] : i \in DOMAIN seen}]]
        Fetched(located, cur, mk1) ==
            IF Sells(mk1, cur) THEN [wp |-> cur, w |-> [located EXCEPT !.mk = mk1]]
            ELSE Pick([located EXCEPT !.mk = mk1], cur,
                      SelectSeq(MarketOrder, LAMBDA x : x # cur /\ (mk1[x].seen => Sells(mk1, x))))
        Located(located, cur) ==
            IF Sells(located.mk, cur) THEN [wp |-> cur, w |-> located]
            ELSE Fetched(located, cur,
                         IF ~located.mk[cur].seen /\ cur \in Marketplaces
                         THEN UpsertSnapshot(located.mk, cur, located.t) ELSE located.mk)
        Here(here) == Located([here EXCEPT !.known = @ \cup {here.ship.wp}], here.ship.wp)
    IN  Here(Refresh(w))

RefuelRedirectShortBackoff(w, fuelAvail) ==
    LET Backoff(x) == [x EXCEPT !.rt.next_wakeup_ts = x.t + Seconds5]
        Land(ready, wp, nav) ==
            IF nav.err # "" THEN Backoff(ready)
            ELSE IF ready.ship.status = "IN_TRANSIT" /\ ready.ship.wp = wp
            THEN [ready EXCEPT !.rs = nav.rs, !.rt.state = "NAVIGATING",
                               !.rt.ctx.destination = "REFUEL"]
            ELSE Backoff([ready EXCEPT !.rs = nav.rs])
        Called(c, wp) == Land(c.w, wp, c.nav)
        Go(ready, wp) == Called(NavigateShip(ready, wp), wp)
        ModeRef(dRef) == IF dRef # Inf /\ dRef <= fuelAvail THEN "CRUISE" ELSE "DRIFT"
        Found(found) ==
            IF found.wp = "" THEN Backoff(found.w)
            ELSE Go(MaybeSetFlightMode(EnsureOrbit(found.w),
                        ModeRef(WaypointDistance(found.w.known, found.w.ship.wp, found.wp))),
                    found.wp)
    IN  Found(FindClosestRefuelWaypoint(w))

\* the redirect of _navigate_to_mine to a refuel waypoint, and the backoff
RefuelRedirect(w, fuelAvail) ==
    LET Backoff(x) == [x EXCEPT !.rt.next_wakeup_ts = x.t + Seconds30]
        Land(ready, wp, nav) ==
            IF nav.err # "" THEN Backoff(ready)
            ELSE IF ready.ship.status = "IN_TRANSIT" /\ ready.ship.wp = wp
            THEN [ready EXCEPT !.rs = nav.rs, !.rt.state = "NAVIGATING",
                               !.rt.ctx.destination = "REFUEL"]
            ELSE Backoff([ready EXCEPT !.rs = nav.rs])
        Called(c, wp) == Land(c.w, wp, c.nav)
        Go(ready, wp) == Called(NavigateShip(ready, wp), wp)
        ModeRef(dRef) == IF dRef # Inf /\ dRef <= fuelAvail THEN "CRUISE" ELSE "DRIFT"
        Found(found) ==
            IF found.wp = "" THEN Backoff(found.w)
            ELSE Go(MaybeSetFlightMode(EnsureOrbit(found.w),
                        ModeRef(WaypointDistance(found.w.known, found.w.ship.wp, found.wp))),
                    found.wp)
    IN  Found(FindClosestRefuelWaypoint(w))

\* ActionExecutor._refuel
ExecRefuel(w, api) ==
    IF api = "raise" THEN Outcome(w, TRUE)
    ELSE Outcome([RefuelIfAvailable(w) EXCEPT !.rt.state = "IDLE"], FALSE)

\* ActionExecutor._navigate_to_mine
ExecNavigateToMine(w, api) ==
    LET Second(second) ==
            IF second.ok THEN Outcome(second.w, FALSE)
            ELSE Outcome(RefuelRedirect(second.w, w.ship.fuel), FALSE)
        First(first, candidates) ==
            IF first.ok THEN Second(first)
            ELSE Second(Attempt(first.w, candidates[1], "DRIFT"))
        Cruise(listed, candidates, cruise) ==
            IF cruise # "" THEN First(Attempt(listed, cruise, "CRUISE"), candidates)
            ELSE First([ok |-> FALSE, w |-> listed], candidates)
        Listed(listed, candidates) == Cruise(listed, candidates, CruiseTarget(listed, candidates))
    IN  IF api = "raise" THEN Outcome(w, TRUE)
        ELSE Listed([w EXCEPT !.known = @ \cup Mineables \cup {w.ship.wp}],
                    ListMineableWaypointsSorted(w))

ExecExtractMineralsKeepWakeup(w, api, good) ==
    LET Done(done) == Outcome([done EXCEPT !.rt.state = "MINING"], FALSE)
        Orbit(orbit) == Done(Refreshed(orbit, SrvExtract(orbit.rs, good, orbit.t).rs))
    IN  IF api = "raise" THEN Outcome(w, TRUE) ELSE Orbit(EnsureOrbit(w))

\* ActionExecutor._extract_minerals, the extraction yielding good
ExecExtractMinerals(w, api, good) ==
    LET Wake(cd, t) == IF build = "spec" /\ cd # NoTs THEN cd
                       ELSE IF cd > t THEN cd ELSE t + Seconds5
        Done(done) == Outcome([done EXCEPT !.rt.state = "MINING",
                                           !.rt.next_wakeup_ts = Wake(done.ship.cd, done.t)], FALSE)
        Orbit(orbit) == Done(Refreshed(orbit, SrvExtract(orbit.rs, good, orbit.t).rs))
    IN  IF api = "raise" THEN Outcome(w, TRUE) ELSE Orbit(EnsureOrbit(w))

\* Markets.dock_and_sell_all_cargo(symbol, market)
DockAndSellAll(w, market) ==
    LET Sold(sold) == IF sold.ship.fuel < FuelCapacity(sold.ship.role)
                      THEN EnsureOrbit(RefuelIfAvailable(sold)) ELSE EnsureOrbit(sold)
        Docked(docked) ==
            Sold(Refreshed([docked EXCEPT !.mk = UpsertSnapshot(docked.mk, market, docked.t),
                                          !.ob = RecordObservations(docked.ob, market)],
                           SrvSellAll(docked.rs, docked.t).rs))
        Here(here) == IF here.ship.wp # market
                      THEN Docked(EnsureDocked(WaitUntilArrival(NavigateInSystem(here, market))))
                      ELSE Docked(EnsureDocked(here))
    IN  Here(Refresh(w))

\* the wakeup _probe_visit_market plans from a cached ship: its route's
\* arrival, or ten seconds from now when the route has none
ArrivalWakeup(ship, t) == IF ship.arrival # NoTs THEN ship.arrival ELSE t + Seconds10

\* _attempt_to(target, mode) of _probe_visit_market
AttemptTo(w, target, mode) ==
    LET Land(ready, nav) ==
            IF nav.err # "" THEN [ok |-> FALSE, w |-> ready]
            ELSE [ok |-> TRUE,
                  w |-> [ready EXCEPT !.rs = nav.rs, !.rt.state = "NAVIGATING",
                                      !.rt.ctx.destination = "PROBE_MARKET",
                                      !.rt.next_wakeup_ts = ArrivalWakeup(ready.ship, ready.t)]]
        Called(c) == Land(c.w, c.nav)
        Go(ready) == Called(NavigateShip(ready, target))
    IN  Go(MaybeSetFlightMode(EnsureOrbit(w), mode))

VisitMarketKeepTarget(w, target) ==
    LET Reset(handled) ==
            [handled EXCEPT !.rt.state = "IDLE", !.rt.ctx.destination = "",
                            !.rt.ctx.target_market = @]
        Best(sold, cargoSyms, bestSym) ==
            IF cargoSyms = {} THEN sold
            ELSE IF bestSym # ""
            THEN [sold EXCEPT !.rt.ctx.target_market = bestSym, !.rt.ctx.selling = TRUE]
            ELSE [Refreshed(sold, SrvJettison(sold.rs, cargoSyms).rs)
                     EXCEPT !.rt.ctx.selling = FALSE, !.rt.ctx.target_market = ""]
        Cargo(sold, cargoSyms) ==
            Best(sold, cargoSyms,
                 Nearest(sold.known, sold.ship.wp,
                         SelectSeq(SnapshotOrder(sold.mk),
                                   LAMBDA x : \E g \in cargoSyms : sold.mk[x].sell[g] > 0)))
        Sold(sold) == Cargo(sold, {g \in Goods : ServerShip(sold.rs, sold.t).inv[g] > 0})
        Visited(visited) ==
            IF w.ship.role = "EXCAVATOR" /\ w.rt.ctx.selling /\ w.ship.units > 0
            THEN Reset(Sold(DockAndSellAll(visited, target))) ELSE Reset(visited)
    IN  Visited([w EXCEPT !.mk = UpsertSnapshot(w.mk, target, w.t),
                          !.ob = RecordObservations(w.ob, target)])

VisitMarketSellAlways(w, target) ==
    LET Reset(handled) ==
            [handled EXCEPT !.rt.state = "IDLE", !.rt.ctx.destination = "",
                            !.rt.ctx.target_market = IF handled.rt.ctx.selling THEN @ ELSE ""]
        Best(sold, cargoSyms, bestSym) ==
            IF cargoSyms = {} THEN sold
            ELSE IF bestSym # ""
            THEN [sold EXCEPT !.rt.ctx.target_market = bestSym, !.rt.ctx.selling = TRUE]
            ELSE [Refreshed(sold, SrvJettison(sold.rs, cargoSyms).rs)
                     EXCEPT !.rt.ctx.selling = FALSE, !.rt.ctx.target_market = ""]
        Cargo(sold, cargoSyms) ==
            Best(sold, cargoSyms,
                 Nearest(sold.known, sold.ship.wp,
                         SelectSeq(SnapshotOrder(sold.mk),
                                   LAMBDA x : \E g \in cargoSyms : sold.mk[x].sell[g] > 0)))
        Sold(sold) == Cargo(sold, {g \in Goods : ServerShip(sold.rs, sold.t).inv[g] > 0})
        Visited(visited) ==
            IF TRUE
            THEN Reset(Sold(DockAndSellAll(visited, target))) ELSE Reset(visited)
    IN  Visited([w EXCEPT !.mk = UpsertSnapshot(w.mk, target, w.t),
                          !.ob = RecordObservations(w.ob, target)])

\* the visit of _probe_visit_market when the cached ship is at its target
VisitMarket(w, target) ==
    LET Reset(handled) ==
            [handled EXCEPT !.rt.state = "IDLE", !.rt.ctx.destination = "",
                            !.rt.ctx.target_market = IF handled.rt.ctx.selling THEN @ ELSE ""]
        Best(sold, cargoSyms, bestSym) ==
            IF cargoSyms = {} THEN sold
            ELSE IF bestSym # ""
            THEN [sold EXCEPT !.rt.ctx.target_market = bestSym, !.rt.ctx.selling = TRUE]
            ELSE [Refreshed(sold, SrvJettison(sold.rs, cargoSyms).rs)
                     EXCEPT !.rt.ctx.selling = FALSE, !.rt.ctx.target_market = ""]
        Cargo(sold, cargoSyms) ==
            Best(sold, cargoSyms,
                 Nearest(sold.known, sold.ship.wp,
                         SelectSeq(SnapshotOrder(sold.mk),
                                   LAMBDA x : \E g \in cargoSyms : sold.mk[x].sell[g] > 0)))
        Sold(sold) == Cargo(sold, {g \in Goods : ServerShip(sold.rs, sold.t).inv[g] > 0})
        Visited(visited) ==
            IF w.ship.role = "EXCAVATOR" /\ w.rt.ctx.selling /\ w.ship.units > 0
            THEN Reset(Sold(DockAndSellAll(visited, target))) ELSE Reset(visited)
    IN  Visited([w EXCEPT !.mk = UpsertSnapshot(w.mk, target, w.t),
                          !.ob = RecordObservations(w.ob, target)])

\* the in-system travel of _probe_visit_market
TravelToMarket(w, target) ==
    LET Cruise(cruise) == IF cruise.ok THEN cruise.w ELSE AttemptTo(cruise.w, target, "DRIFT").w
        Flown(flown) ==
            [flown EXCEPT !.rt.state = "NAVIGATING", !.rt.ctx.destination = "PROBE_MARKET",
                          !.rt.next_wakeup_ts = ArrivalWakeup(flown.ship, flown.t)]
    IN  IF w.ship.role = "EXCAVATOR" /\ w.rt.ctx.selling
        THEN Cruise(AttemptTo(w, target, "CRUISE"))
        ELSE Flown(NavigateInSystem(w, target))

\* ActionExecutor._probe_visit_market
ExecProbeVisitMarket(w, api) ==
    LET target == w.rt.ctx.target_market
    IN  IF target = "" THEN Outcome(w, FALSE)
        ELSE IF w.ship.status # "IN_TRANSIT" /\ w.ship.wp = target /\ api = "ok"
        THEN Outcome(VisitMarket(w, target), FALSE)
        ELSE IF w.ship.status = "IN_TRANSIT"
        THEN Outcome([w EXCEPT !.rt.state = "NAVIGATING",
                               !.rt.ctx.destination = "PROBE_MARKET",
                               !.rt.next_wakeup_ts = ArrivalWakeup(w.ship, w.t)], FALSE)
        ELSE IF api = "raise" THEN Outcome(w, TRUE)
        ELSE Outcome(TravelToMarket(w, target), FALSE)

ExecuteAlways(w, action, api, good) ==
    CASE action = "NAVIGATE_TO_MINE" -> ExecNavigateToMine(w, api)
      [] action = "EXTRACT_MINERALS" -> ExecExtractMinerals(w, api, good)
      [] action = "PROBE_VISIT_MARKET" -> ExecProbeVisitMarket(w, api)
      [] OTHER -> ExecRefuel(w, api)

\* ActionExecutor.execute(symbol, action)
Execute(w, action, api, good) ==
    CASE action = "REFUEL" -> ExecRefuel(w, api)
      [] action = "NAVIGATE_TO_MINE" -> ExecNavigateToMine(w, api)
      [] action = "EXTRACT_MINERALS" -> ExecExtractMinerals(w, api, good)
      [] action = "PROBE_VISIT_MARKET" -> ExecProbeVisitMarket(w, api)
      [] OTHER -> Outcome(w, FALSE)

-----------------------------------------------------------------------------
(* The dispatcher on its own: decide_next_action and shipReadiness called   *)
(* on warehouses, runtimes and servers drawn from bounded sets.             *)

\* the record of a call: what was called on which ship, the action or the
\* timestamp returned, whether an exception left the call, whether every remote
\* call was answered, the state-changing remote calls issued, and, when the
\* call before it was the same call on the same ship, what that one returned
\* and what the first of these calls found; for a tick, what the decision
\* left for the action, the next_wakeup_ts the ship's runtime held when the
\* tick began and the navigate calls of its action
CallRecord(op, sym, ret, raised, ts, apiOk, posts, again, prevRet, base, before, navs) ==
    [op |-> op, sym |-> sym, ret |-> ret, raised |-> raised, ts |-> ts, apiOk |-> apiOk,
     posts |-> posts, again |-> again, prevRet |-> prevRet, base |-> base, before |-> before,
     navs |-> navs]

\* what decide_next_action(s) can change of the warehouse and the runtime
Observable(s) ==
    [ship |-> ships[s], known |-> wpKnown,
     ctx |-> IF runtime[s].present THEN runtime[s].ctx ELSE NoContext]
NoBase == [ship |-> NoShip, known |-> {}, ctx |-> NoContext]

\* a call of decide_next_action(s), with the remote calls it makes answered as
\* api says
DecideCall(s, api) ==
    LET d == DecideNextAction(s, api)
    IN  /\ lastOp' = "decide"
        /\ ships' = [ships EXCEPT ![s] = d.ship]
        /\ runtime' = IF runtime[s].present THEN [runtime EXCEPT ![s].ctx = d.ctx] ELSE runtime
        /\ wpKnown' = d.known
        /\ remote' = [remote EXCEPT ![s].inv = d.inv]
        /\ call' = LET again == lastOp = "decide" /\ call.sym = s
                   IN  CallRecord("decide", s, d.ret, d.ret = "RAISE", NoTs,
                                  api = ApiOk /\ (again => call.apiOk),
                                  d.posts, again, IF again THEN call.ret ELSE "",
                                  IF again THEN call.base ELSE Observable(s), NoTs, <<>>)
        /\ UNCHANGED <<build, now, markets, obs, pc>>
        /\ UNCHANGED <<queueVars, bucket, storage, ledger>>

\* a call of shipReadiness(s)
ReadinessCall(s) ==
    LET r == ShipReadiness(s)
    IN  /\ lastOp' = "readiness"
        /\ call' = CallRecord("readiness", s, "", r.raised, r.ts, TRUE, {}, FALSE, "", NoBase, NoTs, <<>>)
        /\ UNCHANGED <<worldVars, pc>>
        /\ UNCHANGED <<queueVars, bucket, storage, ledger>>

\* the clock of the dispatcher's calls
NowDispatch == 2

\* the server's ships of the dispatcher's calls: in orbit, or in transit with
\* an arrival ahead; an excavator on the asteroid may be cooling down
ServerShips ==
    {r \in [role : {"SATELLITE", "EXCAVATOR"}, wp : Waypoints,
            status : {"IN_ORBIT", "IN_TRANSIT"},
            arrival : {NoTs, NowDispatch + 1},
            fuel : 0..2, inv : Inventories, cd : {NoTs, NowDispatch + 1}, mode : {"CRUISE"}] :
        /\ r.status = "IN_TRANSIT" <=> r.arrival # NoTs
        /\ r.fuel \in {0, FuelCapacity(r.role)}
        /\ r.fuel < FuelCapacity(r.role) =>
              r.wp \in Marketplaces /\ (r.status = "IN_TRANSIT" => r.wp = "W1")
        /\ Units(r.inv) <= CargoCapacity(r.role)
        /\ r.inv["ICE"] <= 1 /\ (r.inv["ORE"] = 1 => r.inv["ICE"] = 1)
        /\ r.cd # NoTs => r.wp \in Mineables /\ r.role = "EXCAVATOR" /\ r.status = "IN_ORBIT"}

\* the runtimes of the dispatcher's calls: ShipRuntime() and what the executor
\* and the dispatcher leave in it
Runtimes(role) ==
    {rt \in [present : {TRUE}, state : {"IDLE", "NAVIGATING", "MINING"},
             next_wakeup_ts : {NoTs, NowDispatch - 1, NowDispatch + 1},
             ctx : [target_market : {""} \cup Marketplaces, selling : BOOLEAN,
                    destination : {"", "MINE", "PROBE_MARKET"},
                    mine_target : {""} \cup Mineables]] :
        /\ rt.state = "IDLE" =>
              /\ rt.ctx.destination = "" /\ rt.ctx.mine_target = ""
              /\ rt.next_wakeup_ts # NoTs => rt.ctx = NoContext
        /\ rt.state # "IDLE" => rt.next_wakeup_ts = NowDispatch + 1
        /\ rt.state = "NAVIGATING" => rt.ctx.destination # ""
        /\ rt.state = "MINING" => rt.ctx.destination = "MINE"
        /\ rt.ctx.destination = "MINE" <=> rt.ctx.mine_target # ""
        /\ rt.ctx.destination = "MINE" => rt.ctx.target_market = "" /\ ~rt.ctx.selling
        /\ rt.ctx.destination = "PROBE_MARKET" => rt.ctx.target_market = "W2"
        /\ role = "EXCAVATOR" /\ rt.ctx.target_market # "" => rt.ctx.selling
        /\ role = "SATELLITE" => ~rt.ctx.selling /\ rt.ctx.destination # "MINE"}

\* Warehouse.upsert_market_snapshot of the server's market data
Snapshot(w, seenAt, rank) ==
    [seen |-> TRUE, fuel |-> ServerMarket(w).fuel, sell |-> ServerMarket(w).sell,
     seenAt |-> seenAt, rank |-> rank]

\* Warehouse.record_good_observation for every good of the cached snapshots
ObservationsOf(mk) ==
    [g \in Goods |->
        LET at == {w \in Marketplaces : mk[w].seen /\ mk[w].sell[g] > 0}
        IN  IF at = {} THEN NoObservation
            ELSE [n |-> Cardinality(at),
                  best |-> CHOOSE p \in {mk[w].sell[g] : w \in at} :
                              \A w \in at : mk[w].sell[g] <= p]]

\* the snapshots cached once the marketplaces of seen were visited, first first
SnapshotsOf(seen, first) ==
    [w \in Waypoints |-> IF w \in seen
                         THEN Snapshot(w, IF w = first THEN 0 ELSE 1, IF w = first THEN 1 ELSE 2)
                         ELSE NoSnapshot]

\* the caches of the dispatcher's calls: a new warehouse; one after visits to
\* some marketplaces; and one whose snapshots were loaded from storage, with
\* neither observations nor waypoints cached
Caches ==
    {[markets |-> SnapshotsOf(seen, first), obs |-> ObservationsOf(SnapshotsOf(seen, first)),
      known |-> IF seen = {} THEN {} ELSE Waypoints] :
        seen \in SUBSET Marketplaces, first \in {"W1"}}
    \cup {[markets |-> SnapshotsOf(Marketplaces, "W2"),
           obs |-> [g \in Goods |-> NoObservation], known |-> {}]}

\* the second ship of the fleet: none, an idle probe with a claimed target, or
\* an excavator that is selling at a claimed target
FleetMate(role, cached, target) ==
    [server |-> [role |-> role, wp |-> "W2", status |-> "IN_ORBIT", arrival |-> NoTs,
                 fuel |-> FuelCapacity(role),
                 inv |-> [g \in Goods |-> IF g = "ORE" THEN CargoCapacity(role) ELSE 0],
                 cd |-> NoTs, mode |-> "CRUISE"],
     cached |-> cached,
     rt |-> IF cached
            THEN [present |-> TRUE, state |-> "IDLE", next_wakeup_ts |-> NoTs,
                  ctx |-> [NoContext EXCEPT !.target_market = target,
                                            !.selling = (role = "EXCAVATOR")]]
            ELSE NoRuntime]

FleetMates ==
    {FleetMate("SATELLITE", FALSE, ""), FleetMate("SATELLITE", TRUE, "W1"),
     FleetMate("EXCAVATOR", TRUE, "W1")}

InitDispatch ==
    /\ EmptyQueue
    /\ lastOp = "init"
    /\ call = NoCall
    /\ bucket = <<>>
    /\ storage = NoStorage
    /\ ledger = NoLedger
    /\ pc = "off"
    /\ build \in Builds
    /\ now = NowDispatch
    /\ \E c \in Caches : markets = c.markets /\ obs = c.obs /\ wpKnown = c.known
    /\ \E r1 \in ServerShips, m \in FleetMates,
          cached \in BOOLEAN :
          \E rt1 \in Runtimes(r1.role) \cup {NoRuntime} :
            /\ ~cached => rt1 \in {NoRuntime, [present |-> TRUE, state |-> "IDLE",
                                                next_wakeup_ts |-> NoTs, ctx |-> NoContext]}
            /\ remote = [s \in ShipSymbols |-> IF s = "S1" THEN r1 ELSE m.server]
            /\ ships = [s \in ShipSymbols |->
                          IF s = "S1" THEN (IF cached THEN FromDict(r1) ELSE NoShip)
                          ELSE (IF m.cached THEN FromDict(m.server) ELSE NoShip)]
            /\ runtime = [s \in ShipSymbols |-> IF s = "S1" THEN rt1 ELSE m.rt]

NextDispatch ==
    \/ \E s \in ShipSymbols, api \in ApiOutcomes : DecideCall(s, api)
    \/ \E s \in ShipSymbols : ReadinessCall(s)

SpecDispatch == InitDispatch /\ [][NextDispatch]_vars

-----------------------------------------------------------------------------
(* app/bootstrap.py and flow/scheduler.py: the program as a whole.          *)

\* bounds of the clock and of the pushes of one behaviour
MaxNow == 90
MaxSequence == 8

\* time.sleep bounds of the scheduler: 0.05 s and 0.5 s, in units of 25 ms
SleepMin == 2
SleepMax == 20

\* MinHeap.peek_next_priority(): the priority at the root, or None
PeekNextPriority(h) == IF h = <<>> THEN NoTs ELSE h[1][1]

\* MinHeap.push(item, priority)
Push(h, seq, item, priority) == InsertHeap(h, seq, item, priority)

WaitSNone(head, t) == 0

\* wait_s = max(0.0, (target_dt - now_dt).total_seconds())
WaitS(head, t) == IF head > t THEN head - t ELSE 0

\* sleep_s = max(0.05, min(wait_s, 0.5))
SleepS(wait) ==
    LET least == IF wait < SleepMax THEN wait ELSE SleepMax
    IN  IF least > SleepMin THEN least ELSE SleepMin

\* the ships the server may hold when the program starts
BootShip(role, wp, fuel, ore, ice) ==
    [role |-> role, wp |-> wp, status |-> "IN_ORBIT", arrival |-> NoTs, fuel |-> fuel,
     inv |-> [g \in Goods |-> IF g = "ORE" THEN ore ELSE ice], cd |-> NoTs, mode |-> "CRUISE"]

BootShips ==
    {BootShip("SATELLITE", "W1", 0, 0, 0), BootShip("SATELLITE", "M1", 0, 0, 0),
     BootShip("EXCAVATOR", "W1", 2, 0, 0), BootShip("EXCAVATOR", "W1", 1, 2, 0),
     BootShip("EXCAVATOR", "W2", 2, 1, 1), BootShip("EXCAVATOR", "M1", 0, 0, 0),
     [BootShip("SATELLITE", "W1", 0, 0, 0) EXCEPT !.status = "DOCKED"]}

\* the caches after Warehouse() and load_market_data_from_storage(): nothing,
\* or the snapshots and observations of the marketplaces visited by earlier runs
BootCaches ==
    {[markets |-> SnapshotsOf(seen, "W1"), obs |-> ObservationsOf(SnapshotsOf(seen, "W1")),
      known |-> {}] : seen \in {{}, {"W1"}, Marketplaces}}

Init ==
    /\ EmptyQueue
    /\ lastOp = "init"
    /\ call = NoCall
    /\ bucket = <<>>
    /\ storage = NoStorage
    /\ ledger = NoLedger
    /\ pc = "boot"
    /\ build \in Builds
    /\ now = 0
    /\ ships = [s \in ShipSymbols |-> NoShip]
    /\ runtime = [s \in ShipSymbols |-> NoRuntime]
    /\ \E c \in BootCaches : markets = c.markets /\ obs = c.obs /\ wpKnown = c.known
    /\ \E r1, r2 \in BootShips \cup {NoShip} :
          /\ r1 = NoShip => r2 = NoShip
          /\ remote = [s \in ShipSymbols |-> IF s = "S1" THEN r1 ELSE r2]

\* ShipRuntime()
FreshRuntime == [present |-> TRUE, state |-> "IDLE", next_wakeup_ts |-> NoTs, ctx |-> NoContext]

\* the order of ships_by_symbol: the order of the fleet payload
ShipOrder == <<"S1", "S2">>

\* the loop of build_app that pushes every ship with its readiness
RECURSIVE PushFleet(_, _, _, _)
PushFleet(q, fleet, t, i) ==
    IF i > Len(ShipOrder) THEN q
    ELSE IF ~fleet[ShipOrder[i]].present THEN PushFleet(q, fleet, t, i + 1)
    ELSE PushFleet([heap |-> Push(q.heap, q.sequence, ShipOrder[i],
                                  Readiness(FreshRuntime, fleet[ShipOrder[i]], t).ts),
                    sequence |-> NextSequence(q.sequence)], fleet, t, i + 1)

\* build_app: update_fleet caches the fleet and gives every ship a runtime,
\* then every ship is pushed.  With the classes of src/ it raises before the
\* first push: update_fleet calls scan_fleet(all_pages=True), which takes no
\* such parameter, and shipReadiness reads cooldown.expiration.
Boot ==
    LET fleet == [s \in ShipSymbols |->
                    IF remote[s] = NoShip THEN NoShip ELSE RefreshShip(remote[s], now)]
        q == PushFleet([heap |-> heap, sequence |-> sequence], fleet, now, 1)
    IN  /\ pc = "boot"
        /\ lastOp' = "boot"
        /\ call' = CallRecord("boot", "", "", build = "src", NoTs, TRUE, {}, FALSE, "", NoBase, NoTs, <<>>)
        /\ IF build = "src"
           THEN /\ pc' = "crashed"
                /\ UNCHANGED <<heap, sequence, ships, runtime>>
           ELSE /\ pc' = "loop"
                /\ ships' = fleet
                /\ runtime' = [s \in ShipSymbols |->
                                  IF fleet[s].present THEN FreshRuntime ELSE NoRuntime]
                /\ heap' = q.heap
                /\ sequence' = q.sequence
        /\ UNCHANGED <<returned, pushLog, popLog, build, now, markets, obs, wpKnown, remote,
                       bucket, storage, ledger>>

\* run_scheduler: the queue is empty and the loop ends
Stop ==
    /\ pc = "loop"
    /\ PeekNextPriority(heap) = NoTs
    /\ pc' = "stopped"
    /\ lastOp' = "stop"
    /\ call' = CallRecord("stop", "", "", FALSE, NoTs, TRUE, {}, FALSE, "", NoBase, NoTs, <<>>)
    /\ UNCHANGED <<queueVars, worldVars, bucket, storage, ledger>>

\* run_scheduler: the head is in the future; sleep and look again
Sleep ==
    /\ pc = "loop"
    /\ PeekNextPriority(heap) # NoTs
    /\ WaitS(PeekNextPriority(heap), now) > 0
    /\ now + SleepS(WaitS(PeekNextPriority(heap), now)) <= MaxNow
    /\ now' = now + SleepS(WaitS(PeekNextPriority(heap), now))
    /\ lastOp' = "sleep"
    /\ call' = CallRecord("sleep", "", "", FALSE, NoTs, TRUE, {}, FALSE, "", NoBase, NoTs, <<>>)
    /\ UNCHANGED <<queueVars, pc, build, ships, runtime, markets, obs, wpKnown, remote, bucket, storage, ledger>>

\* run_scheduler: the head is due; pop it, decide, execute, push it back.
\* apiD and apiE are what the remote calls of the decision and of the action
\* do; good is what an extraction yields.  Nothing in the loop catches an
\* exception: one that leaves decide, execute or shipReadiness ends the loop.
Tick(apiD, apiE, good) ==
    LET Requeue(event, rest, d, o, r) ==
            /\ call' = CallRecord("tick", event, d.ret, o.raised \/ r.raised,
                                  IF o.raised \/ r.raised THEN NoTs ELSE r.ts,
                                  apiD = ApiOk /\ apiE = "ok", d.posts, FALSE, "",
                                  [ship |-> d.ship, known |-> d.known, ctx |-> d.ctx],
                                  IF runtime[event].present
                                  THEN runtime[event].next_wakeup_ts ELSE NoTs, o.w.navs)
            /\ pc' = IF o.raised \/ r.raised THEN "crashed" ELSE "loop"
            /\ heap' = IF o.raised \/ r.raised THEN rest ELSE Push(rest, sequence, event, r.ts)
            /\ sequence' = IF o.raised \/ r.raised THEN sequence ELSE NextSequence(sequence)
            /\ ships' = [ships EXCEPT ![event] = o.w.ship]
            /\ runtime' = [runtime EXCEPT ![event] = o.w.rt]
            /\ remote' = [remote EXCEPT ![event] = o.w.rs]
            /\ markets' = o.w.mk
            /\ obs' = o.w.ob
            /\ wpKnown' = o.w.known
            /\ now' = o.w.t
            /\ UNCHANGED build
        Executed(event, rest, d, o) ==
            Requeue(event, rest, d, o, Readiness(o.w.rt, o.w.ship, o.w.t))
        Decided(event, rest, d, decided) ==
            IF d.ret = "RAISE" THEN Executed(event, rest, d, Outcome(decided, TRUE))
            ELSE Executed(event, rest, d, Execute(decided, d.ret, apiE, good))
        Dispatch(event, rest, d) ==
            Decided(event, rest, d,
                    [ship |-> d.ship,
                     rt |-> IF runtime[event].present
                            THEN [runtime[event] EXCEPT !.ctx = d.ctx] ELSE runtime[event],
                     rs |-> [remote[event] EXCEPT !.inv = d.inv],
                     mk |-> markets, ob |-> obs, known |-> d.known, t |-> now,
                     navs |-> <<>>])
        Popped(event, rest) ==
            IF ~ships[event].present
            THEN /\ heap' = rest
                 /\ call' = CallRecord("tick", event, "", FALSE, NoTs, TRUE, {}, FALSE, "", NoBase, NoTs, <<>>)
                 /\ UNCHANGED <<sequence, pc, worldVars>>
            ELSE Dispatch(event, rest, DecideNextAction(event, apiD))
    IN  /\ pc = "loop"
        /\ PeekNextPriority(heap) # NoTs
        /\ WaitS(PeekNextPriority(heap), now) = 0
        /\ sequence < MaxSequence
        /\ lastOp' = "tick"
        /\ Popped(HeapTop(heap)[3], HeapRest(heap))
        /\ UNCHANGED <<returned, pushLog, popLog, bucket, storage, ledger>>

Next ==
    \/ Boot
    \/ Stop
    \/ Sleep
    \/ \E apiD \in ApiOutcomes, apiE \in ApiPhases, good \in Goods : Tick(apiD, apiE, good)

Spec == Init /\ [][Next]_vars

-----------------------------------------------------------------------------
(* flow/scheduler.py: one turn of run_scheduler, entered with a fleet that  *)
(* is already cached and queued.                                            *)

\* the priority shipReadiness gave a ship when it was pushed at time t
PushedPriority(rt, ship, t) ==
    LET Later(a, b) == IF a >= b THEN a ELSE b
    IN  IF rt.next_wakeup_ts # NoTs THEN Later(rt.next_wakeup_ts, t)
        ELSE Later(Later(ship.arrival, ship.cd), t)

\* the first ship of the queued fleet, on the server and in the cache: the
\* cache as a refresh left it, or, after a DRIFT leg from W1 to W2 that the
\* server accepted and no refresh followed, still the ship as it was at W1
QueuedShips ==
    {[server |-> r, cached |-> FromDict(r)] : r \in ServerShips}
    \cup {[server |-> [BootShip("EXCAVATOR", "W2", 1, 0, 0) EXCEPT !.mode = "DRIFT"],
           cached |-> FromDict(BootShip("EXCAVATOR", "W1", 2, 0, 0))]}

\* the second ship of the queued fleet: not cached, or an idle probe that
\* holds a target
QueuedMates == {FleetMate("SATELLITE", FALSE, ""), FleetMate("SATELLITE", TRUE, "W1")}

InitTick ==
    /\ returned = NoEntry
    /\ pushLog = <<>>
    /\ popLog = <<>>
    /\ lastOp = "init"
    /\ call = NoCall
    /\ bucket = <<>>
    /\ storage = NoStorage
    /\ ledger = NoLedger
    /\ pc = "loop"
    /\ build \in Builds
    /\ now = NowDispatch
    /\ sequence = MaxSequence - 1
    /\ \E c \in Caches : markets = c.markets /\ obs = c.obs /\ wpKnown = c.known
    /\ \E q1 \in QueuedShips, m \in QueuedMates :
          \E rt1 \in Runtimes(q1.server.role) :
            /\ remote = [s \in ShipSymbols |-> IF s = "S1" THEN q1.server ELSE m.server]
            /\ ships = [s \in ShipSymbols |->
                          IF s = "S1" THEN q1.cached
                          ELSE (IF m.cached THEN FromDict(m.server) ELSE NoShip)]
            /\ runtime = [s \in ShipSymbols |-> IF s = "S1" THEN rt1 ELSE m.rt]
            /\ heap = IF m.cached
                      THEN Push(Push(<<>>, MaxSequence - 3, "S1",
                                     PushedPriority(rt1, q1.cached, NowDispatch - 1)),
                                MaxSequence - 2, "S2",
                                PushedPriority(m.rt, FromDict(m.server), NowDispatch - 1))
                      ELSE Push(<<>>, MaxSequence - 2, "S1",
                                PushedPriority(rt1, q1.cached, NowDispatch - 1))

NextTick ==
    \/ Sleep
    \/ \E apiD \in ApiOutcomes, apiE \in ApiPhases, good \in Goods : Tick(apiD, apiE, good)

SpecTick == InitTick /\ [][NextTick]_vars

-----------------------------------------------------------------------------
(* C1: whenever extract_min has just returned an item, the priority of the  *)
(* returned entry is less than or equal to the priority of every entry     *)
(* still in the queue.                                                     *)
C1_ExtractMinIsMinimum ==
    (lastOp = "extract_min" /\ returned # NoEntry) =>
        \A i \in DOMAIN heap : returned[1] <= heap[i][1]

\* an extraction that left two or more entries of different priorities behind
C1_Witness ==
    /\ lastOp = "extract_min"
    /\ returned # NoEntry
    /\ Len(heap) >= 2
    /\ \E i, j \in DOMAIN heap : heap[i][1] # heap[j][1]
    /\ Len(popLog) >= 2

PositionsOf(log, entry) == {i \in DOMAIN log : log[i] = entry}

(* C2: the sequence numbers assigned on push are strictly increasing in    *)
(* push order, and of two entries pushed with equal priority the one       *)
(* pushed later is never extracted unless the one pushed earlier was       *)
(* extracted before it.                                                    *)
C2_FifoTieBreak ==
    /\ \A i, j \in DOMAIN pushLog : i < j => pushLog[i][2] < pushLog[j][2]
    /\ \A i, j \in DOMAIN pushLog :
          (i < j /\ pushLog[i][1] = pushLog[j][1]) =>
              \A q \in PositionsOf(popLog, pushLog[j]) :
                  \E p \in PositionsOf(popLog, pushLog[i]) : p < q

\* two entries of equal priority were pushed around an extraction and a push
\* of another priority, and both have been extracted
C2_Witness ==
    \E i, j \in DOMAIN pushLog :
        /\ i + 1 < j
        /\ pushLog[i][1] = pushLog[j][1]
        /\ \E k \in DOMAIN pushLog : i < k /\ k < j /\ pushLog[k][1] # pushLog[i][1]
        /\ PositionsOf(popLog, pushLog[i]) # {}
        /\ PositionsOf(popLog, pushLog[j]) # {}
        /\ Len(popLog) >= 3

-----------------------------------------------------------------------------
(* C3: in every reachable state of the program, after the bootstrap pushed  *)
(* each ship once and after any number of scheduler ticks, no ship symbol   *)
(* is in the event queue more than once.                                    *)
C3_NoDuplicateShip ==
    \A i, j \in DOMAIN heap : i # j => heap[i][3] # heap[j][3]

\* a tick has pushed its ship back next to the other ship of the fleet, after
\* every ship was popped and pushed back at least once
C3_Witness ==
    /\ lastOp = "tick"
    /\ call.ts # NoTs
    /\ Len(heap) = 2
    /\ sequence >= 2 * Cardinality(ShipSymbols)

-----------------------------------------------------------------------------
(* C4: after every scheduler tick that popped a ship still present in the   *)
(* warehouse, that ship is in the event queue again and the scheduler goes  *)
(* on, also when the action of the tick failed.                             *)
C4_RequeuedAfterEveryTick ==
    (lastOp = "tick" /\ ships[call.sym].present) =>
        /\ \E i \in DOMAIN heap : heap[i][3] = call.sym
        /\ pc = "loop"

-----------------------------------------------------------------------------
(* C5: the scheduler pops and dispatches a ship only when the priority at   *)
(* the head of the queue is not later than the clock; while the head is in  *)
(* the future its only step is to sleep, for at least 0.05 s and at most    *)
(* 0.5 s, and the sleep leaves the queue as it is.                          *)
C5_HonorsWakeupTimes ==
    [][/\ lastOp' = "tick" =>
            PeekNextPriority(heap) # NoTs /\ PeekNextPriority(heap) <= now
       /\ (pc = "loop" /\ PeekNextPriority(heap) > now) =>
            /\ lastOp' = "sleep"
            /\ heap' = heap /\ sequence' = sequence
            /\ now' - now >= SleepMin /\ now' - now <= SleepMax]_vars

\* a ship was dispatched once its wakeup time had come: the scheduler slept
\* the longest sleep, then a sleep raised to 0.05 s that took the clock past
\* the wakeup time by less than that, and then popped the ship
C5_Witness ==
    /\ lastOp = "tick"
    /\ call.ret = "NOOP"
    /\ now > SleepMax
    /\ runtime[call.sym].next_wakeup_ts # NoTs
    /\ runtime[call.sym].next_wakeup_ts < now
    /\ now - runtime[call.sym].next_wakeup_ts < SleepMin

-----------------------------------------------------------------------------
-----------------------------------------------------------------------------
(* api/handle_requests.py: RequestHandler.  Times are in units of 25 ms; a   *)
(* header that carries a number carries it in seconds.                       *)

Second == 40
Minute == 60 * Second

\* RequestRate(2, Duration.SECOND) and RequestRate(30, Duration.MINUTE)
PerSecond == 2
PerMinute == 30

\* bounds: the requests of one behaviour, through get_json / post_json /
\* patch_json and through the session alone, and the time until a reset
MaxCalls == 2
MaxRequests == 32
MaxPauses == 3
ResetTimes == {0, 5 * Second, 70 * Second}

\* time.time() when the response is handled, in seconds since the epoch
EpochNow == 1800000000

\* the x-ratelimit-reset header: absent, a number of seconds from now, a time
\* in seconds since the epoch, or a text float() cannot read (a timestamp);
\* until is the time from now to the reset it tells
ResetHeaders ==
    {[fmt |-> "none", until |-> 0]}
    \cup [fmt : {"delta", "epoch", "text"}, until : ResetTimes]

\* what session.get / post / patch returns: the status, the body (a payload
\* with data, one with error.code 4113, one with another error, or text that
\* is no JSON), whether x-ratelimit-limit is among the headers, the reset
Responses ==
    {r \in [status : {200, 400, 429, 502}, body : {"data", "4113", "error", "text"},
            limit : BOOLEAN, reset : ResetHeaders] :
        /\ r.status # 429 => ~r.limit
        /\ ~r.limit => r.reset.fmt = "none"
        /\ r.status = 200 <=> r.body = "data"}

\* what the server answers to the second request of a call
SecondResponses ==
    {r \in Responses : /\ r.reset.fmt = "delta" => r.reset.until = 5 * Second /\ r.body = "error"
                       /\ r.reset.fmt \in {"none", "delta"}
                       /\ r.status \in {429, 502} => r.body = "error"}

NoResponse == [status |-> 0, body |-> "", limit |-> FALSE, reset |-> [fmt |-> "none", until |-> 0]]

AbortNever(resp) == FALSE

\* _abort_on_token_reset_mismatch(resp): whether it raises SystemExit(1)
AbortOnTokenResetMismatch(resp) == resp.body = "4113"

\* _sleep_with_jitter(seconds): seconds * (0.9 + 0.2 * (time.time() % 1))
JitterPercents == {90, 109}
SleepWithJitter(d, j) == (d * j) \div 100

\* _handle_spacetraders_429(resp): whether the request is to be issued again,
\* and the seconds it hands to _sleep_with_jitter before it says so
Handle429(resp) ==
    LET Above1e10(v) == v \div 10 > 1000000000 \/ (v \div 10 = 1000000000 /\ v % 10 > 0)
        Clamp(w) == IF w < 0 THEN 0 ELSE IF w > 60 THEN 60 ELSE w
        Wait(v) == Clamp(IF Above1e10(v) THEN v - EpochNow ELSE v)
        Slept(w) == [again |-> TRUE, wait |-> IF w > 0 THEN w * Second ELSE 2 * Second]
    IN  IF resp.status # 429 \/ ~resp.limit THEN [again |-> FALSE, wait |-> 0]
        ELSE IF resp.reset.fmt \in {"none", "text"} THEN [again |-> TRUE, wait |-> 2 * Second]
        ELSE IF resp.reset.fmt = "epoch"
        THEN Slept(Wait(EpochNow + resp.reset.until \div Second))
        ELSE Slept(Wait(resp.reset.until \div Second))

LimitedGetOnly(kind) == kind = "GET"

\* whether a request of this kind goes through the LimiterSession: get_json,
\* post_json and patch_json, and their second requests, all use self.session
Limited(kind) == kind \in {"GET", "POST", "PATCH"}

\* Limiter.try_acquire with delay, over a MemoryListBucket: the first time from
\* t on at which fewer than PerSecond requests were let through in the second
\* before it and fewer than PerMinute in the minute before it
Acquire(log, t) ==
    LET Free(x) == /\ Cardinality({i \in DOMAIN log : log[i] > x - Second}) < PerSecond
                   /\ Cardinality({i \in DOMAIN log : log[i] > x - Minute}) < PerMinute
        times == {t} \cup {log[i] + Second : i \in DOMAIN log}
                     \cup {log[i] + Minute : i \in DOMAIN log}
    IN  CHOOSE x \in times : /\ x >= t /\ Free(x)
                             /\ \A y \in times : (y >= t /\ Free(y)) => x <= y

\* session.get / post / patch at time t: when the request leaves, and the
\* bucket after it (items older than a minute are dropped)
SessionSend(log, kind, t) ==
    LET Sent(at) == [at |-> at,
                     log |-> Append(SelectSeq(log, LAMBDA x : x > at - Minute), at)]
    IN  IF Limited(kind) THEN Sent(Acquire(log, t)) ELSE Sent(t)

\* the record of a call of get_json / post_json / patch_json: the responses
\* it saw, when its requests left, what it slept, how it ended ("return",
\* "raise" when resp.json() fails, "exit" on SystemExit) and the response
\* whose payload the caller got; n counts the calls of the behaviour
Requests == IF lastOp \in {"request", "send"} THEN call.n ELSE 0
RequestRecord(kind, seen, sent, slept, out, payload) ==
    [op |-> "request", kind |-> kind, seen |-> seen, sent |-> sent, slept |-> slept,
     out |-> out, payload |-> payload, n |-> Requests + 1]

\* get_json (through spacetraders_get), post_json, patch_json: the caller
\* issues the call gap after the last one; r1 and r2 are what the server
\* answers to the first request and to the second; j is the jitter
TransportCall(kind, r1, r2, j, gap) ==
    LET End(rec, log, t) ==
            /\ call' = rec
            /\ bucket' = log
            /\ now' = t
            /\ pc' = IF rec.out = "exit" THEN "exited" ELSE pc
        Json(resp, seen, sent, slept, log, t) ==
            IF AbortOnTokenResetMismatch(resp)
            THEN End(RequestRecord(kind, seen, sent, slept, "exit", NoResponse), log, t)
            ELSE IF resp.body = "text"
            THEN End(RequestRecord(kind, seen, sent, slept, "raise", NoResponse), log, t)
            ELSE End(RequestRecord(kind, seen, sent, slept, "return", resp), log, t)
        Again(first, slept, second) ==
            Json(r2, <<r1, r2>>, <<first.at, second.at>>, slept, second.log, second.at)
        Handled(first, h) ==
            IF AbortOnTokenResetMismatch(r1)
            THEN Json(r1, <<r1>>, <<first.at>>, 0, first.log, first.at)
            ELSE IF h.again
            THEN Again(first, SleepWithJitter(h.wait, j),
                       SessionSend(first.log, kind, first.at + SleepWithJitter(h.wait, j)))
            ELSE IF r1.status = 502
            THEN Json(r1, <<r1>>, <<first.at>>, SleepWithJitter(3 * Second, j), first.log,
                      first.at + SleepWithJitter(3 * Second, j))
            ELSE Json(r1, <<r1>>, <<first.at>>, 0, first.log, first.at)
        First(first) == Handled(first, Handle429(r1))
    IN  /\ pc = "off"
        /\ Requests < MaxCalls
        /\ lastOp' = "request"
        /\ First(SessionSend(bucket, kind, now + gap))
        /\ UNCHANGED <<queueVars, build, ships, runtime, markets, obs,
                       wpKnown, remote, storage, ledger>>

InitTransport ==
    /\ EmptyQueue
    /\ EmptyWarehouse
    /\ lastOp = "init"
    /\ build = "src"
    /\ now = 0
    /\ remote = [s \in ShipSymbols |-> NoShip]
    /\ call = NoCall
    /\ bucket = <<>>
    /\ storage = NoStorage
    /\ ledger = NoLedger
    /\ pc = "off"

NextTransport ==
    \E kind \in {"GET", "POST", "PATCH"}, r1 \in Responses :
        \E r2 \in IF Handle429(r1).again /\ r1.body # "4113"
                   THEN SecondResponses ELSE {NoResponse},
           j \in IF (Handle429(r1).again \/ r1.status = 502) /\ r1.body # "4113"
                  THEN JitterPercents ELSE {100} :
            TransportCall(kind, r1, r2, j, 0)

SpecTransport == InitTransport /\ [][NextTransport]_vars

\* one request through the session, of any kind, the caller having paused
\* for gap after the last one
Send(kind, gap) ==
    LET Sent(s) == /\ bucket' = s.log
                   /\ now' = s.at
                   /\ call' = RequestRecord(kind, <<>>, <<s.at>>, 0, "return", NoResponse)
    IN  /\ Requests < MaxRequests
        /\ gap > 0 => Requests < MaxPauses
        /\ lastOp' = "send"
        /\ Sent(SessionSend(bucket, kind, now + gap))
        /\ UNCHANGED <<queueVars, build, ships, runtime, markets, obs,
                       wpKnown, remote, pc, storage, ledger>>

NextLimiter == \E kind \in {"GET", "POST", "PATCH"}, gap \in {0, Second \div 2} : Send(kind, gap)

SpecLimiter == InitTransport /\ [][NextLimiter]_vars

-----------------------------------------------------------------------------
(* data/warehouse.py: the market knowledge base on its own.  Here a value   *)
(* of markets is the snapshot dict itself (its tradeGoods is the list that  *)
(* was stored) and a value of obs is the list goods_observations[g] itself. *)

\* bound: the observations a behaviour appends to the lists after the load
MaxObsLen == 2

\* a trade good of a market payload; one of them has no symbol, and a list of
\* trade goods may hold an entry that is no dict
NotADict == [dict |-> FALSE]
GoodPayload(sym, sell, vol) ==
    [dict |-> TRUE, symbol |-> sym, purchasePrice |-> sell + 1, sellPrice |-> sell,
     tradeVolume |-> vol]
TradeGoodsLists ==
    {<<>>,
     <<GoodPayload("ORE", 20, 10)>>,
     <<GoodPayload("ORE", 20, 60)>>,
     <<GoodPayload("ORE", 5, 10), GoodPayload("ICE", 12, 10)>>,
     <<GoodPayload("", 7, 10), NotADict>>}

\* the market payloads: a dict with "symbol", one with "waypointSymbol" alone,
\* one that names no waypoint, and a payload that is no dict
MarketPayloads ==
    {[dict |-> TRUE, symbol |-> w, waypointSymbol |-> "", tradeGoods |-> tg] :
        w \in Marketplaces \cup {""}, tg \in TradeGoodsLists}
    \cup {[dict |-> TRUE, symbol |-> "", waypointSymbol |-> "W2",
           tradeGoods |-> <<GoodPayload("ORE", 20, 10)>>],
          NotADict}

\* market_data.get("symbol") or market_data.get("waypointSymbol")
NamedWaypoint(m) ==
    IF ~m.dict THEN "" ELSE IF m.symbol # "" THEN m.symbol ELSE m.waypointSymbol

\* _extract_price_map(market_like): per symbol of the trade goods the pair
\* (purchasePrice, sellPrice), of the last entry with that symbol
PriceMap(goods) ==
    {<<goods[i].symbol, goods[i].purchasePrice, goods[i].sellPrice>> :
        i \in {k \in DOMAIN goods :
                 /\ goods[k].dict /\ goods[k].symbol # ""
                 /\ \A j \in DOMAIN goods :
                        (j > k /\ goods[j].dict) => goods[j].symbol # goods[k].symbol}}

\* prices_unchanged of upsert_market_snapshot
PricesUnchanged(mk, m) ==
    /\ NamedWaypoint(m) # "" /\ mk[NamedWaypoint(m)].seen
    /\ PriceMap(mk[NamedWaypoint(m)].tradeGoods) # {}
    /\ PriceMap(mk[NamedWaypoint(m)].tradeGoods) = PriceMap(m.tradeGoods)

UpsertUnlessUnchanged(mk, system, m, t) ==
    IF NamedWaypoint(m) = "" \/ PricesUnchanged(mk, m) THEN mk
    ELSE [mk EXCEPT ![NamedWaypoint(m)] =
              [seen |-> TRUE, systemSymbol |-> system, waypointSymbol |-> NamedWaypoint(m),
               seenAt |-> t, tradeGoods |-> m.tradeGoods]]

\* Warehouse.upsert_market_snapshot(system_symbol, market_data)
UpsertMarketSnapshot(mk, system, m, t) ==
    IF NamedWaypoint(m) = "" THEN mk
    ELSE [mk EXCEPT ![NamedWaypoint(m)] =
              [seen |-> TRUE, systemSymbol |-> system, waypointSymbol |-> NamedWaypoint(m),
               seenAt |-> t, tradeGoods |-> m.tradeGoods]]

RecordGoodObservationOnce(ob, system, wp, good, t) ==
    IF ~good.dict \/ good.symbol = "" \/ ob[good.symbol] # <<>> THEN ob
    ELSE [ob EXCEPT ![good.symbol] =
              Append(@, [systemSymbol |-> system, waypointSymbol |-> wp,
                         purchasePrice |-> good.purchasePrice,
                         sellPrice |-> good.sellPrice,
                         tradeVolume |-> good.tradeVolume, seenAt |-> t])]

\* Warehouse.record_good_observation(system_symbol, waypoint_symbol, good)
RecordGoodObservation(ob, system, wp, good, t) ==
    IF ~good.dict \/ good.symbol = "" THEN ob
    ELSE [ob EXCEPT ![good.symbol] =
              Append(@, [systemSymbol |-> system, waypointSymbol |-> wp,
                         purchasePrice |-> good.purchasePrice,
                         sellPrice |-> good.sellPrice,
                         tradeVolume |-> good.tradeVolume, seenAt |-> t])]

\* for good in goods: record_good_observation(system_symbol, wp, good)
RECURSIVE RecordEach(_, _, _, _, _)
RecordEach(ob, system, wp, goods, t) ==
    IF goods = <<>> THEN ob
    ELSE RecordEach(RecordGoodObservation(ob, system, wp, Head(goods), t),
                    system, wp, Tail(goods), t)

\* what fetch_latest_prices_by_waypoint returns from the rows that earlier
\* runs of the program left in the storage: per waypoint the latest row of
\* each good; a waypoint without rows has no entry
StoredRow(good, sell, ts) == [good |-> good, buy_price |-> sell + 1, sell_price |-> sell, ts |-> ts]
StoredPrices ==
    {[w \in Marketplaces |-> <<>>],
     [w \in Marketplaces |-> IF w = "W1" THEN <<StoredRow("ORE", 20, 0)>> ELSE <<>>],
     [w \in Marketplaces |-> IF w = "W1" THEN <<StoredRow("ICE", 12, 0), StoredRow("ORE", 20, 0)>>
                                        ELSE <<StoredRow("ORE", 5, 0)>>]}

\* the observations load_market_data_from_storage appends for one waypoint
RECURSIVE SeedEach(_, _, _, _)
SeedEach(ob, system, wp, rows) ==
    IF rows = <<>> THEN ob
    ELSE SeedEach([ob EXCEPT ![Head(rows).good] =
                       Append(@, [systemSymbol |-> system, waypointSymbol |-> wp,
                                  purchasePrice |-> Head(rows).buy_price,
                                  sellPrice |-> Head(rows).sell_price,
                                  tradeVolume |-> 0, seenAt |-> Head(rows).ts])],
                  system, wp, Tail(rows))

\* the tradeGoods list load_market_data_from_storage builds from the rows
TradeGoodsOf(rows) ==
    [i \in DOMAIN rows |-> [dict |-> TRUE, symbol |-> rows[i].good,
                            purchasePrice |-> rows[i].buy_price, sellPrice |-> rows[i].sell_price]]

System == "X1"

\* the record of a warehouse operation: the payload it was given, the
\* waypoint it named, and whether a snapshot with other tradeGoods was
\* stored for that waypoint before
WarehouseRecord(op, m, wp, good) ==
    [op |-> op, m |-> m, wp |-> wp, good |-> good,
     replaced |-> wp # "" /\ op # "record" /\ markets[wp].seen
                  /\ m.dict /\ markets[wp].tradeGoods # m.tradeGoods,
     unchanged |-> op # "record" /\ PricesUnchanged(markets, m)]

Room(goods) ==
    Len(obs["ORE"]) + Len(obs["ICE"])
        + Cardinality({i \in DOMAIN goods : goods[i].dict /\ goods[i].symbol # ""}) <= MaxObsLen

\* Warehouse.load_market_data_from_storage(), called by build_app on the new
\* Warehouse before anything else; ok is whether the storage answered
LoadMarketDataFromStorage(latest, ok) ==
    LET Seed(ob, w) == SeedEach(ob, System, w, latest[w])
    IN  /\ pc = "boot"
        /\ pc' = "run"
        /\ lastOp' = "load"
        /\ call' = [op |-> "load", latest |-> latest, ok |-> ok]
        /\ markets' = [w \in Waypoints |->
                          IF ok /\ w \in Marketplaces /\ latest[w] # <<>>
                          THEN [seen |-> TRUE, systemSymbol |-> System, waypointSymbol |-> w,
                                seenAt |-> latest[w][1].ts, tradeGoods |-> TradeGoodsOf(latest[w])]
                          ELSE markets[w]]
        /\ obs' = IF ok THEN Seed(Seed(obs, "W1"), "W2") ELSE obs
        /\ UNCHANGED <<queueVars, build, now, ships, runtime, wpKnown, remote, bucket, storage, ledger>>

\* a call of upsert_market_snapshot alone (Markets.find_best_marketplace_for_cargo,
\* Navigation: the market is stored, its goods are not recorded)
UpsertMarket(m) ==
    /\ pc' = "run"
    /\ lastOp' = "upsert"
    /\ call' = WarehouseRecord("upsert", m, NamedWaypoint(m), NotADict)
    /\ markets' = UpsertMarketSnapshot(markets, System, m, now)
    /\ UNCHANGED <<queueVars, build, now, ships, runtime, obs, wpKnown, remote, bucket, storage, ledger>>

\* a call of record_good_observation alone
RecordGood(wp, good) ==
    /\ Room(<<good>>)
    /\ pc' = "run"
    /\ lastOp' = "record"
    /\ call' = WarehouseRecord("record", NotADict, wp, good)
    /\ obs' = RecordGoodObservation(obs, System, wp, good, now)
    /\ UNCHANGED <<queueVars, build, now, ships, runtime, markets, wpKnown, remote, bucket, storage, ledger>>

\* the market visit of the executor, of the scanner and of a sale: the
\* market of the waypoint is fetched, stored, and each of its goods recorded
VisitAndRecord(wp, m) ==
    /\ m.dict /\ NamedWaypoint(m) = wp
    /\ Room(m.tradeGoods)
    /\ pc' = "run"
    /\ lastOp' = "visit"
    /\ call' = WarehouseRecord("visit", m, wp, NotADict)
    /\ markets' = UpsertMarketSnapshot(markets, System, m, now)
    /\ obs' = RecordEach(obs, System, wp, m.tradeGoods, now)
    /\ UNCHANGED <<queueVars, build, now, ships, runtime, wpKnown, remote, bucket, storage, ledger>>

InitWarehouse ==
    /\ EmptyQueue
    /\ ships = [s \in ShipSymbols |-> NoShip]
    /\ runtime = [s \in ShipSymbols |-> NoRuntime]
    /\ markets = [w \in Waypoints |-> NoSnapshot]
    /\ obs = [g \in Goods |-> <<>>]
    /\ wpKnown = {}
    /\ lastOp = "init"
    /\ build = "src"
    /\ now = 0
    /\ remote = [s \in ShipSymbols |-> NoShip]
    /\ call = NoCall
    /\ bucket = <<>>
    /\ storage = NoStorage
    /\ ledger = NoLedger
    /\ pc = "boot"

NextWarehouse ==
    \/ \E latest \in StoredPrices, ok \in BOOLEAN : LoadMarketDataFromStorage(latest, ok)
    \/ \E m \in MarketPayloads : UpsertMarket(m)
    \/ \E wp \in Marketplaces, tg \in TradeGoodsLists, i \in 1..2 :
            i \in DOMAIN tg /\ RecordGood(wp, tg[i])
    \/ \E wp \in Marketplaces, m \in MarketPayloads : VisitAndRecord(wp, m)

SpecWarehouse == InitWarehouse /\ [][NextWarehouse]_vars

-----------------------------------------------------------------------------
(* data/warehouse.py, policy/dispatcher.py, logic/navigation.py: the fleet  *)
(* cache and the runtime map on their own.  Here ships and runtime are      *)
(* keyed by whatever Ship.symbol the payloads yield, None included.         *)

\* the keys ships_by_symbol can get: the symbols of the fleet, and None
NoSymbol == "None"
ShipKeys == ShipSymbols \cup {NoSymbol}

\* what a GET of the fleet or of one ship answers: a payload with data, a
\* payload with an error object (get_json returns resp.json() whatever the
\* status), or a transport exception
GetAnswers == {"data", "error", "raise"}

\* Ship.from_dict on a dict without the keys of a ship: every member is None
\* or its default
EmptyDictShip ==
    [present |-> TRUE, role |-> "", wp |-> "", status |-> "", arrival |-> NoTs,
     fuel |-> 0, units |-> 0, cd |-> NoTs]

\* Navigation._get_ship_dict: payload.get("data", payload), and the symbol
\* Ship.from_dict reads from it
ShipDict(s, answer, r, t) ==
    IF answer = "data" THEN [symbol |-> s, ship |-> RefreshShip(r, t)]
    ELSE [symbol |-> NoSymbol, ship |-> EmptyDictShip]

\* Warehouse.upsert_ship
UpsertShip(sh, d) == [sh EXCEPT ![d.symbol] = d.ship]

\* Warehouse.upsert_fleet: payload.get("data", []), each ship upserted
UpsertFleet(sh, answer, rem, t) ==
    [k \in ShipKeys |->
        IF answer = "data" /\ k \in ShipSymbols /\ rem[k] # NoShip
        THEN RefreshShip(rem[k], t) ELSE sh[k]]

\* Dispatcher.update_fleet: the fleet is scanned and every symbol of
\* ships_by_symbol without a runtime gets a new one.  With the Scanner of src/
\* the call scan_fleet(all_pages=True) raises TypeError.
UpdateFleet(answer) ==
    LET Scanned(sh) ==
            /\ ships' = sh
            /\ runtime' = [k \in ShipKeys |->
                              IF sh[k].present /\ ~runtime[k].present
                              THEN FreshRuntime ELSE runtime[k]]
    IN  /\ pc = "boot"
        /\ lastOp' = "update_fleet"
        /\ call' = [op |-> "update_fleet", sym |-> "", answer |-> answer]
        /\ IF build = "src" \/ answer = "raise"
           THEN pc' = "crashed" /\ UNCHANGED <<ships, runtime>>
           ELSE pc' = "loop" /\ Scanned(UpsertFleet(ships, answer, remote, now))
        /\ UNCHANGED <<queueVars, build, now, markets, obs, wpKnown, remote, bucket, storage, ledger>>

\* Navigation._refresh_ship(symbol), as every executor action calls it for
\* the ship of the tick
RefreshShipCall(s, answer) ==
    /\ pc = "loop"
    /\ ships[s].present
    /\ lastOp' = "refresh"
    /\ call' = [op |-> "refresh", sym |-> s, answer |-> answer]
    /\ ships' = IF answer = "raise" THEN ships
                ELSE UpsertShip(ships, ShipDict(s, answer, remote[s], now))
    /\ UNCHANGED <<queueVars, pc, build, now, runtime, markets, obs, wpKnown, remote, bucket, storage, ledger>>

\* FleetAPI.orbit_ship / dock_ship answered by the server: the calls of the
\* executor that change the ship the server holds
PostOrbitOrDock(s, dock) ==
    /\ pc = "loop"
    /\ ships[s].present
    /\ lastOp' = "post"
    /\ call' = [op |-> "post", sym |-> s, answer |-> IF dock THEN "dock" ELSE "orbit"]
    /\ remote' = [remote EXCEPT ![s] = IF dock THEN SrvDock(@, now).rs ELSE SrvOrbit(@, now).rs]
    /\ UNCHANGED <<queueVars, pc, build, now, ships, runtime, markets, obs, wpKnown, bucket, storage, ledger>>

InitFleet ==
    /\ EmptyQueue
    /\ lastOp = "init"
    /\ call = NoCall
    /\ bucket = <<>>
    /\ storage = NoStorage
    /\ ledger = NoLedger
    /\ pc = "boot"
    /\ build \in Builds
    /\ now = 0
    /\ ships = [k \in ShipKeys |-> NoShip]
    /\ runtime = [k \in ShipKeys |-> NoRuntime]
    /\ markets = [w \in Waypoints |-> NoSnapshot]
    /\ obs = [g \in Goods |-> NoObservation]
    /\ wpKnown = {}
    /\ \E r1, r2 \in BootShips \cup {NoShip} :
          /\ r1 = NoShip => r2 = NoShip
          /\ remote = [s \in ShipSymbols |-> IF s = "S1" THEN r1 ELSE r2]

NextFleet ==
    \/ \E answer \in GetAnswers : UpdateFleet(answer)
    \/ \E s \in ShipSymbols, answer \in GetAnswers : RefreshShipCall(s, answer)
    \/ \E s \in ShipSymbols, dock \in BOOLEAN : PostOrbitOrDock(s, dock)

SpecFleet == InitFleet /\ [][NextFleet]_vars

-----------------------------------------------------------------------------
(* data/storage.py: SQLiteStorage.  A row of a table is its ts; a table is  *)
(* the sequence of its rows in the order of their ids.                      *)

Hour == 60 * Minute
Day == 24 * Hour

\* _maybe_cleanup(days=2), as both inserts call it
RetentionDays == 2

\* bounds: the writes of one behaviour; the clock when the process starts
MaxWrites == 4
StorageStart == 10 * Day

\* time.strftime("%Y-%m-%dT%H:%M:%SZ", time.gmtime(t)) and
\* isoformat(timespec="seconds"): the time to the whole second below it
StrfTime(t) == (t \div Second) * Second

CleanupObservationsOnly(st, t, days) ==
    IF t - st.last < Hour THEN st
    ELSE [st EXCEPT !.last = t,
                    !.obs = SelectSeq(@, LAMBDA ts : ~(ts < StrfTime(t - days * Day)))]

\* SQLiteStorage._maybe_cleanup(days) at time t
MaybeCleanup(st, t, days) ==
    IF t - st.last < Hour THEN st
    ELSE [st EXCEPT !.last = t,
                    !.obs = SelectSeq(@, LAMBDA ts : ~(ts < StrfTime(t - days * Day))),
                    !.tx = SelectSeq(@, LAMBDA ts : ~(ts < StrfTime(t - days * Day)))]

\* SQLiteStorage.insert_market_observation(ts=...) at time t
InsertMarketObservation(st, ts, t) ==
    [MaybeCleanup(st, t, RetentionDays) EXCEPT !.obs = Append(@, ts)]

\* SQLiteStorage.insert_transaction(ts=...) at time t
InsertTransaction(st, ts, t) ==
    [MaybeCleanup(st, t, RetentionDays) EXCEPT !.tx = Append(@, ts)]

\* the rows earlier runs of the program left in a table
EarlierRows == {<<>>, <<StorageStart - 3 * Day, StorageStart - Day - Hour>>}

\* how long after the last write the next one comes
WriteGaps == {0, Second \div 2, Hour - Second \div 2, Hour, Day}

\* a write of the program, gap after the one before: record_good_observation
\* and the trade logging of Markets insert a row whose ts is the time of the
\* write, to the second
StorageWrite(table, gap) ==
    LET Written(t, new) ==
            /\ now' = t
            /\ storage' = [new EXCEPT !.writes = @ + 1]
            /\ call' = [op |-> "insert", sym |-> table, at |-> t, prev |-> storage.last,
                        cleaned |-> new.last # storage.last, before |-> storage]
    IN  /\ storage.writes < MaxWrites
        /\ lastOp' = "insert"
        /\ Written(now + gap,
                   IF table = "market_observations"
                   THEN InsertMarketObservation(storage, StrfTime(now + gap), now + gap)
                   ELSE InsertTransaction(storage, StrfTime(now + gap), now + gap))
        /\ UNCHANGED <<queueVars, build, ships, runtime, markets, obs, wpKnown, remote, pc,
                       bucket, ledger>>

\* SQLiteStorage.__init__ on the file earlier runs left
InitStorage ==
    /\ EmptyQueue
    /\ EmptyWarehouse
    /\ lastOp = "init"
    /\ build = "src"
    /\ now = StorageStart
    /\ remote = [s \in ShipSymbols |-> NoShip]
    /\ call = NoCall
    /\ bucket = <<>>
    /\ pc = "off"
    /\ \E o, t \in EarlierRows : storage = [obs |-> o, tx |-> t, last |-> 0, writes |-> 0]
    /\ ledger = NoLedger

NextStorage ==
    \E table \in {"market_observations", "transactions"}, gap \in WriteGaps :
        StorageWrite(table, gap)

SpecStorage == InitStorage /\ [][NextStorage]_vars

-----------------------------------------------------------------------------
(* logic/utility.py, utils/time.py and the places that write a timestamp:   *)
(* the timestamps as the strings they are.  A string is the sequence of the *)
(* codes of its characters; an instant is a time of the day 2026-11-01 in   *)
(* units of 25 ms.                                                           *)

Digits2(n) == <<48 + (n \div 10), 48 + (n % 10)>>
Digits3(n) == <<48 + (n \div 100), 48 + ((n \div 10) % 10), 48 + (n % 10)>>

\* "2026-11-01T", "+00:00", "Z"
DatePrefix == <<50, 48, 50, 54, 45, 49, 49, 45, 48, 49, 84>>
UtcOffset == <<43, 48, 48, 58, 48, 48>>
Zulu == <<90>>

\* "HH:MM:SS" of an instant
ClockSeconds(t) ==
    Digits2(t \div Hour) \o <<58>> \o Digits2((t % Hour) \div Minute) \o <<58>>
        \o Digits2((t % Minute) \div Second)

\* datetime.isoformat(timespec="milliseconds") of an aware UTC datetime
IsoFormatMilliseconds(t) ==
    DatePrefix \o ClockSeconds(t) \o <<46>> \o Digits3((t % Second) * 25) \o UtcOffset

\* str.replace("+00:00", "Z") on a string that holds "+" at most once
ReplaceOffset(str) ==
    IF \E i \in DOMAIN str : SubSeq(str, i, i + 5) = UtcOffset
    THEN LET i == CHOOSE k \in DOMAIN str : SubSeq(str, k, k + 5) = UtcOffset
         IN  SubSeq(str, 1, i - 1) \o Zulu \o SubSeq(str, i + 6, Len(str))
    ELSE str

GetUtcTimestampSeconds(t) == DatePrefix \o ClockSeconds(t) \o Zulu

\* get_utc_timestamp() at instant t, and the same expression of the executor
\* on datetime.now(timezone.utc) + timedelta(...)
GetUtcTimestamp(t) == ReplaceOffset(IsoFormatMilliseconds(t))

\* a time as the game server writes it: milliseconds and Z
ServerTimestamp(t) ==
    DatePrefix \o ClockSeconds(t) \o <<46>> \o Digits3((t % Second) * 25) \o Zulu

\* parse_iso_utc(ts): the instant of datetime.fromisoformat on the string
\* with its Z replaced by +00:00
ParseIsoUtc(str) ==
    LET D(i) == str[i] - 48
    IN  (10 * D(12) + D(13)) * Hour + (10 * D(15) + D(16)) * Minute
            + (10 * D(18) + D(19)) * Second
            + (IF Len(str) > 20 /\ str[20] = 46
               THEN (100 * D(21) + 10 * D(22) + D(23)) \div 25 ELSE 0)

\* a < b and max(a, b) of two str
StrLess(a, b) ==
    \/ Len(a) < Len(b) /\ SubSeq(b, 1, Len(a)) = a
    \/ \E i \in 1..(IF Len(a) < Len(b) THEN Len(a) ELSE Len(b)) :
            /\ a[i] < b[i]
            /\ SubSeq(a, 1, i - 1) = SubSeq(b, 1, i - 1)
StrMax(a, b) == IF StrLess(a, b) THEN b ELSE a

\* bounds: the instants of a behaviour, and the values it writes
TimestampStart == 9 * Hour + 59 * Minute + 58 * Second
Instants == {TimestampStart, TimestampStart + 1, TimestampStart + Second + 39,
             TimestampStart + 2 * Minute + 3}
MaxWritten == 3

\* what the executor writes to next_wakeup_ts: a backoff from now
\* (30 s, the remaining seconds of a cooldown, 5 s, 10 s), or the server's
\* cooldown.expiration or nav.route.arrival as it came
WakeupSites == {"plus30", "remaining", "plus5", "plus10", "expiration", "arrival"}
WakeupValue(site, t) ==
    CASE site = "plus30" -> GetUtcTimestamp(t + Seconds30)
      [] site = "remaining" -> GetUtcTimestamp(t + 70 * Second)
      [] site = "plus5" -> GetUtcTimestamp(t + Seconds5)
      [] site = "plus10" -> GetUtcTimestamp(t + Seconds10)
      [] site = "expiration" -> ServerTimestamp(t + CooldownTime)
      [] OTHER -> ServerTimestamp(t + TravelTime(1, "CRUISE"))

\* the ship's nav.route.arrival and cooldown.expiration as the cache holds
\* them: none, or a time of the server before or after now
CachedTimes(t) == {<<>>, ServerTimestamp(t - Second), ServerTimestamp(t + 1)}

\* Dispatcher.shipReadiness on strings
ReadinessString(wakeup, arrival, cooldown, t) ==
    LET current == GetUtcTimestamp(t)
        Or(ts) == IF ts = <<>> THEN current ELSE ts
    IN  IF wakeup # <<>> THEN StrMax(wakeup, current)
        ELSE StrMax(StrMax(Or(arrival), Or(cooldown)), current)

\* the next_wakeup_ts of the ship as the string last written, <<>> for None
WrittenWakeup ==
    IF \E i \in DOMAIN pushLog : pushLog[i][2] = "wakeup"
    THEN pushLog[CHOOSE i \in DOMAIN pushLog :
                    /\ pushLog[i][2] = "wakeup"
                    /\ \A j \in DOMAIN pushLog : pushLog[j][2] = "wakeup" => j <= i][1]
    ELSE <<>>

\* an executor action writes next_wakeup_ts
WriteWakeup(site) ==
    /\ Len(pushLog) < MaxWritten
    /\ lastOp' = "write"
    /\ call' = [op |-> "write", sym |-> "S1", site |-> site]
    /\ pushLog' = Append(pushLog, <<WakeupValue(site, now), "wakeup", "S1">>)
    /\ UNCHANGED <<heap, sequence, returned, popLog, worldVars, pc, bucket, storage, ledger>>

\* the scheduler pushes the ship with its readiness
PushReadiness(arrival, cooldown) ==
    /\ Len(pushLog) < MaxWritten
    /\ lastOp' = "readiness"
    /\ call' = [op |-> "readiness", sym |-> "S1", site |-> ""]
    /\ pushLog' = Append(pushLog,
                         <<ReadinessString(WrittenWakeup, arrival, cooldown, now),
                           "priority", "S1">>)
    /\ UNCHANGED <<heap, sequence, returned, popLog, worldVars, pc, bucket, storage, ledger>>

\* time passes
Pass(t) ==
    /\ t > now
    /\ now' = t
    /\ lastOp' = "pass"
    /\ call' = [op |-> "pass", sym |-> "", site |-> ""]
    /\ UNCHANGED <<queueVars, build, ships, runtime, markets, obs, wpKnown, remote, pc,
                   bucket, storage, ledger>>

InitTimestamps ==
    /\ EmptyQueue
    /\ EmptyWarehouse
    /\ lastOp = "init"
    /\ build = "spec"
    /\ now = TimestampStart
    /\ remote = [s \in ShipSymbols |-> NoShip]
    /\ call = NoCall
    /\ bucket = <<>>
    /\ storage = NoStorage
    /\ ledger = NoLedger
    /\ pc = "loop"

NextTimestamps ==
    \/ \E site \in WakeupSites : WriteWakeup(site)
    \/ \E arrival, cooldown \in CachedTimes(now) : PushReadiness(arrival, cooldown)
    \/ \E t \in Instants : Pass(t)

SpecTimestamps == InitTimestamps /\ [][NextTimestamps]_vars

-----------------------------------------------------------------------------
ShipActions == {"NOOP", "REFUEL", "NAVIGATE_TO_MINE", "EXTRACT_MINERALS", "PROBE_VISIT_MARKET"}

(* C7: when decide_next_action has been called twice in a row on the same    *)
(* ship, with every remote call answered and nothing else done in between,  *)
(* the second call returned what the first returned, and the cached ship,   *)
(* the cached waypoints and the ship's runtime context other than           *)
(* target_market are what they were before the first call.                  *)
C7_DecideTwiceSame ==
    (lastOp = "decide" /\ call.again /\ call.apiOk) =>
        /\ call.ret = call.prevRet
        /\ ships[call.sym] = call.base.ship
        /\ wpKnown = call.base.known
        /\ [Observable(call.sym).ctx EXCEPT !.target_market = ""]
              = [call.base.ctx EXCEPT !.target_market = ""]

(* C8: a call of decide_next_action issues no state-changing remote call and *)
(* changes nothing in the warehouse other than the context of the ship's    *)
(* runtime.                                                                  *)
C8_DecideNoSideEffect ==
    [][lastOp' = "decide" =>
          /\ call'.posts = {}
          /\ ships' = ships /\ markets' = markets /\ obs' = obs /\ wpKnown' = wpKnown
          /\ \A s \in ShipSymbols :
                \/ runtime'[s] = runtime[s]
                \/ /\ s = call'.sym /\ runtime[s].present
                   /\ runtime'[s] = [runtime[s] EXCEPT !.ctx = runtime'[s].ctx]]_vars

(* C9: every call of decide_next_action returns one of the five ShipActions; *)
(* no exception leaves it.                                                   *)
C9_DecideNeverThrows ==
    lastOp = "decide" => ~call.raised /\ call.ret \in ShipActions

MaxTs(a, b) == IF a >= b THEN a ELSE b

(* C10: a call of shipReadiness for a cached ship returns max(next_wakeup_ts, *)
(* now) when the runtime's next_wakeup_ts is set and max(route.arrival,     *)
(* cooldown.expiration, now) otherwise, and never a time before now.        *)
C10_ReadinessValue ==
    (lastOp = "readiness" /\ ships[call.sym].present) =>
        LET rt == runtime[call.sym]
            ship == ships[call.sym]
        IN  /\ ~call.raised
            /\ call.ts = IF rt.present /\ rt.next_wakeup_ts # NoTs
                         THEN MaxTs(rt.next_wakeup_ts, now)
                         ELSE MaxTs(MaxTs(ship.arrival, ship.cd), now)
            /\ call.ts >= now

\* a tick whose action the executor carried out
Acted ==
    /\ lastOp = "tick"
    /\ call.ret \in {"NAVIGATE_TO_MINE", "EXTRACT_MINERALS", "REFUEL", "PROBE_VISIT_MARKET"}
    /\ ~call.raised

C12_RefuelGate ==
    (/\ lastOp = "decide" /\ ~call.again /\ call.base.ship.present
     /\ runtime[call.sym].present /\ runtime[call.sym].state = "IDLE") =>
        LET ship == call.base.ship
            snapshot == markets[ship.wp]
        IN  call.ret = "REFUEL" <=> /\ ship.fuel < FuelCapacity(ship.role)
                                    /\ ship.status # "IN_TRANSIT"
                                    /\ snapshot.seen /\ snapshot.fuel > 0

(* C13: when the first navigate call of NAVIGATE_TO_MINE, made in CRUISE, is *)
(* answered with error 4203, the next navigate call is made in DRIFT to the  *)
(* same target, and when the server accepts that one the runtime ends        *)
(* NAVIGATING with destination MINE, mine_target the target and             *)
(* next_wakeup_ts the arrival of the route.                                  *)
C13_DriftFallback ==
    (/\ lastOp = "tick" /\ call.ret = "NAVIGATE_TO_MINE" /\ ~call.raised
     /\ call.navs # <<>>
     /\ call.navs[1].mode = "CRUISE" /\ call.navs[1].err = "4203") =>
        /\ Len(call.navs) >= 2
        /\ call.navs[2].mode = "DRIFT" /\ call.navs[2].to = call.navs[1].to
        /\ call.navs[2].err = "" =>
              LET rt == runtime[call.sym]
              IN  /\ rt.state = "NAVIGATING"
                  /\ rt.ctx.destination = "MINE"
                  /\ rt.ctx.mine_target = call.navs[1].to
                  /\ rt.next_wakeup_ts = remote[call.sym].arrival

\* the marketplaces whose cached snapshot buys, above the dispatcher's minimum
\* price of 10, a good that ship s carries
KnownBuyers(s) ==
    {w \in Marketplaces :
        markets[w].seen /\ \E g \in Goods : remote[s].inv[g] > 0 /\ markets[w].sell[g] > 10}

(* C14: a call of decide_next_action on an IDLE excavator that is not yet     *)
(* selling, needs no fuel and has full cargo, with every remote call         *)
(* answered and a cached snapshot that buys one of its goods, returns        *)
(* PROBE_VISIT_MARKET and leaves selling set and target_market at a known    *)
(* buyer that no other known buyer is nearer to the ship than.               *)
C14_FullCargoSellsAtNearestBuyer ==
    (/\ lastOp = "decide" /\ ~call.again /\ call.apiOk
     /\ call.base.ship.present /\ call.base.ship.role = "EXCAVATOR"
     /\ runtime[call.sym].present /\ runtime[call.sym].state = "IDLE"
     /\ ~call.base.ctx.selling
     /\ call.base.ship.fuel = FuelCapacity("EXCAVATOR")
     /\ call.base.ship.units = CargoCapacity("EXCAVATOR")
     /\ KnownBuyers(call.sym) # {}) =>
        LET ctx == runtime[call.sym].ctx
            Far(w) == Abs(WpX(call.base.ship.wp) - WpX(w))
        IN  /\ call.ret = "PROBE_VISIT_MARKET"
            /\ ctx.selling
            /\ ctx.target_market \in KnownBuyers(call.sym)
            /\ \A w \in KnownBuyers(call.sym) : Far(ctx.target_market) <= Far(w)

\* the marketplaces other than the one ship s stands at that no runtime of
\* another ship holds as target_market
FreeOtherMarketplaces(s, at) ==
    {w \in Marketplaces \ {at} :
        \A x \in ShipSymbols \ {s} : runtime[x].present => runtime[x].ctx.target_market # w}

(* C15: a call of decide_next_action on an IDLE probe that holds no target    *)
(* and stands at a marketplace, while no marketplace has a cached snapshot   *)
(* and every remote call is answered, returns PROBE_VISIT_MARKET with        *)
(* target_market the nearest of the other marketplaces that no other         *)
(* runtime holds as target.                                                  *)
C15_ProbeTargetsNearestOther ==
    (/\ lastOp = "decide" /\ ~call.again /\ call.apiOk
     /\ call.base.ship.present /\ call.base.ship.role = "SATELLITE"
     /\ call.base.ship.status = "IN_ORBIT" /\ call.base.ship.wp \in Marketplaces
     /\ runtime[call.sym].present /\ runtime[call.sym].state = "IDLE"
     /\ call.base.ctx.target_market = ""
     /\ \A w \in Marketplaces : ~markets[w].seen
     /\ FreeOtherMarketplaces(call.sym, call.base.ship.wp) # {}) =>
        LET target == runtime[call.sym].ctx.target_market
            Far(w) == Abs(WpX(call.base.ship.wp) - WpX(w))
        IN  /\ call.ret = "PROBE_VISIT_MARKET"
            /\ target \in FreeOtherMarketplaces(call.sym, call.base.ship.wp)
            /\ \A w \in FreeOtherMarketplaces(call.sym, call.base.ship.wp) : Far(target) <= Far(w)

(* C16: a call of get_json, post_json or patch_json ends in the exit of the  *)
(* process, and hands no payload to its caller, exactly when one of the      *)
(* responses it saw (the first, or the one to the request issued again after *)
(* a 429) carries error.code 4113; the process has exited only so.           *)
C16_FatalExit ==
    /\ lastOp = "request" =>
          /\ call.out = "exit" <=> \E i \in DOMAIN call.seen : call.seen[i].body = "4113"
          /\ call.out = "exit" => call.payload = NoResponse
          /\ call.out = "exit" <=> pc = "exited"
    /\ pc = "exited" => lastOp = "request" /\ call.out = "exit"

\* the second response of a call, after a 429, carried the code
C16_Witness ==
    /\ lastOp = "request" /\ pc = "exited"
    /\ Len(call.seen) = 2 /\ call.seen[1].status = 429 /\ call.seen[2].body = "4113"
    /\ call.kind = "PATCH"

(* C17: when the first response of a call has status 429 and carries the     *)
(* x-ratelimit-limit header and an x-ratelimit-reset header, the call sleeps *)
(* the time until the reset, clamped to [0, 60] seconds (within the 10% of   *)
(* jitter), then issues the request a second time and no third time, and a   *)
(* caller that gets a payload gets that of the second response.              *)
C17_SleepUntilReset ==
    (/\ lastOp = "request"
     /\ call.seen[1].status = 429 /\ call.seen[1].limit
     /\ call.seen[1].reset.fmt # "none"
     /\ ~AbortOnTokenResetMismatch(call.seen[1])) =>
        LET until == call.seen[1].reset.until
            clamped == IF until > 60 * Second THEN 60 * Second ELSE until
        IN  /\ Len(call.seen) = 2 /\ Len(call.sent) = 2
            /\ call.out = "return" => call.payload = call.seen[2]
            /\ 10 * call.slept >= 9 * clamped - 10
            /\ 10 * call.slept <= 11 * clamped

C19_SnapshotIsLastUpsert ==
    [][/\ (lastOp' \in {"upsert", "visit"} /\ call'.wp # "") =>
              /\ markets'[call'.wp].seen
              /\ markets'[call'.wp].tradeGoods = call'.m.tradeGoods
       /\ \A w \in Waypoints :
              (lastOp' # "load" /\ ~(lastOp' \in {"upsert", "visit"} /\ call'.wp = w)) =>
                  markets'[w] = markets[w]]_vars

\* an upsert replaced a snapshot with the same prices and other tradeGoods
C19_Witness ==
    /\ lastOp = "upsert" /\ call.wp = "W1"
    /\ call.replaced /\ call.unchanged
    /\ markets["W1"].tradeGoods = call.m.tradeGoods

(* C20: no operation of the warehouse or market visit makes a list of        *)
(* goods_observations shorter, and a call of record_good_observation with a  *)
(* good that has a symbol makes the list of that symbol longer by exactly    *)
(* one and leaves the other lists as long as they were.                      *)
C20_ObservationsOnlyGrow ==
    [][/\ \A g \in Goods : Len(obs'[g]) >= Len(obs[g])
       /\ (lastOp' = "record" /\ call'.good.dict /\ call'.good.symbol # "") =>
              \A g \in Goods :
                  Len(obs'[g]) = Len(obs[g]) + (IF g = call'.good.symbol THEN 1 ELSE 0)]_vars

\* a good was recorded into a list that the load from the storage had seeded
C20_Witness ==
    /\ lastOp = "record" /\ call.good.dict /\ call.good.symbol = "ORE"
    /\ Len(obs["ORE"]) = 2
    /\ obs["ORE"][1].seenAt = 0 /\ obs["ORE"][1].tradeVolume = 0
    /\ obs["ORE"][2].waypointSymbol = call.wp
    /\ obs["ORE"][2].sellPrice = call.good.sellPrice

(* C21: once update_fleet has run, every key of ships_by_symbol has an       *)
(* entry in the runtime map, whatever the executor's refreshes of the ships  *)
(* store afterwards.                                                         *)
C21_RuntimeForEveryShip ==
    pc = "loop" => \A k \in ShipKeys : ships[k].present => runtime[k].present

(* C22: a write runs the cleanup only when at least an hour has passed since *)
(* the cleanup before it; a cleanup removes from both tables exactly the     *)
(* rows whose ts is before the time two days ago (to the second, as the ts   *)
(* are kept); a write without cleanup removes nothing; and the written row   *)
(* is added to its table.                                                    *)
C22_Retention ==
    lastOp = "insert" =>
        LET cutoff == ((call.at - 2 * 24 * 3600 * Second) \div Second) * Second
            Kept(rows) == IF call.cleaned THEN SelectSeq(rows, LAMBDA ts : ts >= cutoff)
                          ELSE rows
            Added(table) == IF call.sym = table THEN <<(call.at \div Second) * Second>>
                            ELSE <<>>
        IN  /\ call.cleaned => call.at - call.prev >= 3600 * Second
            /\ storage.obs = Kept(call.before.obs) \o Added("market_observations")
            /\ storage.tx = Kept(call.before.tx) \o Added("transactions")

\* a cleanup that was not the first of the process removed rows of both
\* tables and kept others
C22_Witness ==
    /\ lastOp = "insert" /\ call.cleaned /\ call.prev > 0
    /\ Len(storage.obs) + Len(storage.tx) < Len(call.before.obs) + Len(call.before.tx)
    /\ \E i \in DOMAIN call.before.obs : \A j \in DOMAIN storage.obs :
            storage.obs[j] # call.before.obs[i]
    /\ \E i \in DOMAIN call.before.tx : \A j \in DOMAIN storage.tx :
            storage.tx[j] # call.before.tx[i]
    /\ Len(storage.obs) >= 2

\* a string of the form YYYY-MM-DDTHH:MM:SS.mmmZ
IsFixedForm(str) ==
    /\ Len(str) = 24
    /\ str[5] = 45 /\ str[8] = 45 /\ str[11] = 84 /\ str[14] = 58 /\ str[17] = 58
    /\ str[20] = 46 /\ str[24] = 90
    /\ \A i \in (1..23) \ {5, 8, 11, 14, 17, 20} : str[i] \in 48..57

C25_LoopEndsOnlyWhenEmpty ==
    (pc \in {"stopped", "crashed"} /\ lastOp \in {"tick", "stop"}) => heap = <<>>

(* C26: a call of decide_next_action on a cached ship whose runtime is      *)
(* NAVIGATING returns EXTRACT_MINERALS or NOOP, and EXTRACT_MINERALS only   *)
(* when the ship is not IN_TRANSIT, the destination is MINE, the current    *)
(* waypoint is mineable and mine_target is the current waypoint.            *)
C26_NavigatingExtractsOnlyAtTarget ==
    (/\ lastOp = "decide" /\ ~call.again /\ call.base.ship.present
     /\ runtime[call.sym].present /\ runtime[call.sym].state = "NAVIGATING") =>
        LET ship == call.base.ship
            ctx == call.base.ctx
        IN  /\ call.ret \in {"EXTRACT_MINERALS", "NOOP"}
            /\ call.ret = "EXTRACT_MINERALS" =>
                  /\ ship.status # "IN_TRANSIT"
                  /\ ctx.destination = "MINE"
                  /\ ship.wp \in Mineables
                  /\ ctx.mine_target = ship.wp

(* C27: a call of decide_next_action on a cached ship whose runtime is      *)
(* MINING returns EXTRACT_MINERALS when the cached cargo is below capacity  *)
(* and NOOP when it is full.                                                *)
C27_MiningExtractsUntilFull ==
    (/\ lastOp = "decide" /\ ~call.again /\ call.base.ship.present
     /\ runtime[call.sym].present /\ runtime[call.sym].state = "MINING") =>
        LET ship == call.base.ship
        IN  call.ret = IF ship.units < CargoCapacity(ship.role)
                       THEN "EXTRACT_MINERALS" ELSE "NOOP"

(* C28: when the server refuses every navigate call of NAVIGATE_TO_MINE,    *)
(* the tick leaves next_wakeup_ts at 30 s after the time of the backoff and *)
(* the runtime's state, destination and mine_target as they were.           *)
C28_BackoffWhenAllAttemptsFail ==
    [][(/\ lastOp' = "tick" /\ call'.ret = "NAVIGATE_TO_MINE" /\ ~call'.raised
        /\ call'.navs # <<>>
        /\ \A i \in DOMAIN call'.navs : call'.navs[i].err # "") =>
          LET before == runtime[call'.sym]
              after == runtime'[call'.sym]
          IN  /\ after.next_wakeup_ts = now' + Seconds30
              /\ after.state = before.state
              /\ after.ctx.destination = before.ctx.destination
              /\ after.ctx.mine_target = before.ctx.mine_target]_vars

\* the CRUISE call, the DRIFT call and the call of the redirect were refused
C28_Witness ==
    /\ lastOp = "tick" /\ call.ret = "NAVIGATE_TO_MINE" /\ ~call.raised
    /\ Len(call.navs) = 3
    /\ call.navs[1].mode = "CRUISE" /\ call.navs[2].mode = "DRIFT"
    /\ \A i \in DOMAIN call.navs : call.navs[i].err # ""
    /\ runtime[call.sym].next_wakeup_ts = now + Seconds30
    /\ runtime[call.sym].state = "IDLE"

\* the tick just taken was an EXTRACT_MINERALS that returned
ExtractTick == lastOp' = "tick" /\ call'.ret = "EXTRACT_MINERALS" /\ ~call'.raised

\* the server added a unit to the cargo of the ship of the tick just taken
Extracted == Units(remote'[call'.sym].inv) = Units(remote[call'.sym].inv) + 1

C30_FailedExtractKeepsState ==
    [][(ExtractTick /\ ~Extracted) =>
          runtime'[call'.sym].state = runtime[call'.sym].state]_vars

\* the tick just taken ran PROBE_VISIT_MARKET to its end, the cached ship
\* standing at its target, not IN_TRANSIT, when the action began
-----------------------------------------------------------------------------
(* logic/markets.py: dock_and_sell_all_cargo, one inventory item at a time.  *)

\* bound: the calls of dock_and_sell_all_cargo in one behaviour
MaxSellCalls == 2

\* the order of the inventory list the server answers get_cargo with
CargoOrder == <<"ORE", "ICE">>

\* how the sell request of one item may be answered, and whether
\* insert_transaction returns or raises
SellAnswers == [Goods -> {"ok", "error"}]
DbPhases == {"ok", "raise"}

\* POST /my/ships/{symbol}/sell of units of good, the agent holding credits
SrvSell(rs, good, units, credits, t) ==
    LET cur == ServerShip(rs, t)
        price == IF cur.wp \in Marketplaces THEN ServerMarket(cur.wp).sell[good] ELSE 0
    IN  IF cur.status = "DOCKED" /\ price > 0 /\ units > 0 /\ cur.inv[good] >= units
        THEN [rs |-> [cur EXCEPT !.inv[good] = @ - units], err |-> "",
              unit |-> price, total |-> units * price, agent |-> credits + units * price]
        ELSE [rs |-> rs, err |-> "4602", unit |-> 0, total |-> 0, agent |-> credits]

SellItemNoFilter(acc, inventory, sellable, good, answer, db) ==
    LET units == inventory[good]
        Persist(sold, unit, total) ==
            IF db = "ok"
            THEN [sold EXCEPT !.st = InsertTransaction(@, StrfTime(sold.w.t), sold.w.t)]
            ELSE [sold EXCEPT !.w = Refresh(@),
                              !.led.trades = Append(@, [ts |-> StrfTime(sold.w.t),
                                                        wp |-> Refresh(sold.w).ship.wp,
                                                        good |-> good, units |-> units,
                                                        unit |-> unit, total |-> total])]
        Told(tx) ==
            IF tx.err # ""
            THEN [acc EXCEPT !.sells = Append(@, [good |-> good, units |-> units, err |-> tx.err])]
            ELSE [Persist([acc EXCEPT !.w.rs = tx.rs, !.led.agent = tx.agent,
                                      !.led.credits = tx.agent,
                                      !.sells = Append(@, [good |-> good, units |-> units,
                                                           err |-> ""])],
                          tx.unit, tx.total)
                  EXCEPT !.w = Refresh(@)]
    IN  IF units = 0 THEN acc
        ELSE IF answer = "error"
        THEN Told([rs |-> acc.w.rs, err |-> "5000", unit |-> 0, total |-> 0,
                   agent |-> acc.led.agent])
        ELSE Told(SrvSell(acc.w.rs, good, units, acc.led.agent, acc.w.t))

SellItemPersistRefused(acc, inventory, sellable, good, answer, db) ==
    LET units == inventory[good]
        Persist(sold, unit, total) ==
            IF db = "ok"
            THEN [sold EXCEPT !.st = InsertTransaction(@, StrfTime(sold.w.t), sold.w.t)]
            ELSE [sold EXCEPT !.w = Refresh(@),
                              !.led.trades = Append(@, [ts |-> StrfTime(sold.w.t),
                                                        wp |-> Refresh(sold.w).ship.wp,
                                                        good |-> good, units |-> units,
                                                        unit |-> unit, total |-> total])]
        Told(tx) ==
            [Persist([acc EXCEPT !.w.rs = tx.rs, !.led.agent = tx.agent,
                                 !.led.credits = IF tx.err = "" THEN tx.agent ELSE @,
                                 !.sells = Append(@, [good |-> good, units |-> units,
                                                      err |-> tx.err])],
                     tx.unit, tx.total)
             EXCEPT !.w = Refresh(@)]
    IN  IF units = 0 THEN acc
        ELSE IF good \notin sellable THEN acc
        ELSE IF answer = "error"
        THEN Told([rs |-> acc.w.rs, err |-> "5000", unit |-> 0, total |-> 0,
                   agent |-> acc.led.agent])
        ELSE Told(SrvSell(acc.w.rs, good, units, acc.led.agent, acc.w.t))

\* one turn of the loop of dock_and_sell_all_cargo (markets.py:195-266) for
\* the item of good in the inventory get_cargo answered: acc holds the world,
\* the storage, the ledger and the sell calls made so far
SellItem(acc, inventory, sellable, good, answer, db) ==
    LET units == inventory[good]
        Persist(sold, unit, total) ==
            IF db = "ok"
            THEN [sold EXCEPT !.st = InsertTransaction(@, StrfTime(sold.w.t), sold.w.t)]
            ELSE [sold EXCEPT !.w = Refresh(@),
                              !.led.trades = Append(@, [ts |-> StrfTime(sold.w.t),
                                                        wp |-> Refresh(sold.w).ship.wp,
                                                        good |-> good, units |-> units,
                                                        unit |-> unit, total |-> total])]
        Told(tx) ==
            IF tx.err # ""
            THEN [acc EXCEPT !.sells = Append(@, [good |-> good, units |-> units, err |-> tx.err])]
            ELSE [Persist([acc EXCEPT !.w.rs = tx.rs, !.led.agent = tx.agent,
                                      !.led.credits = tx.agent,
                                      !.sells = Append(@, [good |-> good, units |-> units,
                                                           err |-> ""])],
                          tx.unit, tx.total)
                  EXCEPT !.w = Refresh(@)]
    IN  IF units = 0 THEN acc
        ELSE IF good \notin sellable THEN acc
        ELSE IF answer = "error"
        THEN Told([rs |-> acc.w.rs, err |-> "5000", unit |-> 0, total |-> 0,
                   agent |-> acc.led.agent])
        ELSE Told(SrvSell(acc.w.rs, good, units, acc.led.agent, acc.w.t))

\* Markets.dock_and_sell_all_cargo(symbol, market) with its bookkeeping: the
\* world, the storage and the ledger after it, and the sell calls it made
DockAndSellAllCargo(w, st, led, market, answers, db) ==
    LET sellable == {g \in Goods : ServerMarket(market).sell[g] > 0}
        Leave(acc, sold) ==
            [acc EXCEPT !.w = IF sold.ship.fuel < FuelCapacity(sold.ship.role)
                              THEN EnsureOrbit(RefuelIfAvailable(sold)) ELSE EnsureOrbit(sold)]
        Finish(acc) == Leave(acc, Refresh(acc.w))
        Loop(acc, inventory) ==
            Finish(SellItem(SellItem(acc, inventory, sellable, CargoOrder[1],
                                     answers[CargoOrder[1]], db),
                            inventory, sellable, CargoOrder[2], answers[CargoOrder[2]], db))
        Docked(docked) ==
            Loop([w |-> [docked EXCEPT !.mk = UpsertSnapshot(docked.mk, market, docked.t),
                                       !.ob = RecordObservations(docked.ob, market)],
                  st |-> st, led |-> led, sells |-> <<>>],
                 ServerShip(docked.rs, docked.t).inv)
        Here(here) == IF here.ship.wp # market
                      THEN Docked(EnsureDocked(WaitUntilArrival(NavigateInSystem(here, market))))
                      ELSE Docked(EnsureDocked(here))
    IN  Here(Refresh(w))

SellCalls == IF call.op = "sell_all" THEN call.n ELSE 0

\* a call of dock_and_sell_all_cargo(s, market)
SellCargo(s, market, answers, db) ==
    LET Done(acc) ==
            /\ ships' = [ships EXCEPT ![s] = acc.w.ship]
            /\ remote' = [remote EXCEPT ![s] = acc.w.rs]
            /\ markets' = acc.w.mk
            /\ obs' = acc.w.ob
            /\ wpKnown' = acc.w.known
            /\ now' = acc.w.t
            /\ storage' = acc.st
            /\ ledger' = acc.led
            /\ call' = [op |-> "sell_all", sym |-> s, market |-> market, n |-> SellCalls + 1,
                        sells |-> acc.sells, db |-> db]
    IN  /\ SellCalls < MaxSellCalls
        /\ ships[s].present
        /\ lastOp' = "sell_all"
        /\ Done(DockAndSellAllCargo(World(s), storage, ledger, market, answers, db))
        /\ UNCHANGED <<queueVars, build, runtime, pc, bucket>>

\* the clock moves on between two calls
SellLater ==
    /\ now < StorageStart + 2 * Hour
    /\ now' = now + Hour
    /\ lastOp' = "later"
    /\ UNCHANGED <<queueVars, build, ships, runtime, markets, obs, wpKnown, remote, call, pc,
                   bucket, storage, ledger>>

\* an excavator with cargo, in orbit or docked at a waypoint, and the agent's
\* credits known from the boot
InitSell ==
    /\ EmptyQueue
    /\ lastOp = "init"
    /\ build = "spec"
    /\ now = StorageStart
    /\ call = NoCall
    /\ bucket = <<>>
    /\ pc = "loop"
    /\ storage = [NoStorage EXCEPT !.last = StorageStart - Hour \div 2]
    /\ ledger = [agent |-> 100, credits |-> 100, trades |-> <<>>]
    /\ markets = [w \in Waypoints |-> NoSnapshot]
    /\ obs = [g \in Goods |-> NoObservation]
    /\ wpKnown = Waypoints
    /\ \E wp \in Waypoints, status \in {"IN_ORBIT", "DOCKED"}, inv \in Inventories,
          fuel \in {0, 2} :
          /\ Units(inv) > 0
          /\ remote = [s \in ShipSymbols |->
                         IF s = "S1"
                         THEN [BootShip("EXCAVATOR", wp, fuel, inv["ORE"], inv["ICE"])
                               EXCEPT !.status = status]
                         ELSE NoShip]
          /\ ships = [s \in ShipSymbols |-> IF s = "S1" THEN FromDict(remote[s]) ELSE NoShip]
          /\ runtime = [s \in ShipSymbols |-> IF s = "S1" THEN FreshRuntime ELSE NoRuntime]

NextSell ==
    \/ \E market \in Marketplaces, answers \in SellAnswers, db \in DbPhases :
          SellCargo("S1", market, answers, db)
    \/ SellLater

SpecSell == InitSell /\ [][NextSell]_vars

-----------------------------------------------------------------------------
(* data/storage.py: SQLiteStorage written to by several threads.  A step is *)
(* what a thread does without another one running in between: the check of  *)
(* _maybe_cleanup, its assignment, and each block under `with self._lock`.   *)

Threads == {"T1", "T2"}

\* bound: the writes of one behaviour of the threads
MaxThreadWrites == 3

\* the writes of the behaviour that are under way or done
ThreadWrites == storage.writes + Cardinality({th \in Threads : pc[th] # "idle"})

\* insert_market_observation / insert_transaction entered: _maybe_cleanup
\* reads the clock and compares it with _last_cleanup_time (storage.py:74-77)
ThreadCheck(th, table) ==
    /\ pc[th] = "idle"
    /\ ThreadWrites < MaxThreadWrites
    /\ pc' = [pc EXCEPT ![th] = IF now - storage.last < Hour THEN "insert" ELSE "assign"]
    /\ call' = [call EXCEPT !.at[th] = now, !.table[th] = table]
    /\ lastOp' = "check"
    /\ UNCHANGED <<queueVars, worldVars, bucket, storage, ledger>>

\* self._last_cleanup_time = now (storage.py:78)
ThreadAssign(th) ==
    /\ pc[th] = "assign"
    /\ pc' = [pc EXCEPT ![th] = "delete"]
    /\ storage' = [storage EXCEPT !.last = call.at[th]]
    /\ lastOp' = "assign"
    /\ UNCHANGED <<queueVars, worldVars, call, bucket, ledger>>

\* the two DELETEs and the commit, under the lock (storage.py:80-85)
ThreadDelete(th) ==
    /\ pc[th] = "delete"
    /\ pc' = [pc EXCEPT ![th] = "insert"]
    /\ storage' = [MaybeCleanup([storage EXCEPT !.last = 0], call.at[th], RetentionDays)
                   EXCEPT !.last = storage.last]
    /\ call' = [call EXCEPT !.cleanups = Append(@, [by |-> th, at |-> call.at[th]])]
    /\ lastOp' = "delete"
    /\ UNCHANGED <<queueVars, worldVars, bucket, ledger>>

\* the INSERT and the commit, under the lock (storage.py:100-110, 125-135)
ThreadInsert(th) ==
    /\ pc[th] = "insert"
    /\ pc' = [pc EXCEPT ![th] = "idle"]
    /\ storage' = IF call.table[th] = "market_observations"
                  THEN [storage EXCEPT !.obs = Append(@, StrfTime(call.at[th])), !.writes = @ + 1]
                  ELSE [storage EXCEPT !.tx = Append(@, StrfTime(call.at[th])), !.writes = @ + 1]
    /\ lastOp' = "insert"
    /\ UNCHANGED <<queueVars, worldVars, call, bucket, ledger>>

\* the clock moves on
ThreadLater(gap) ==
    /\ now + gap <= StorageStart + Hour
    /\ now' = now + gap
    /\ lastOp' = "later"
    /\ UNCHANGED <<queueVars, build, ships, runtime, markets, obs, wpKnown, remote, call, pc,
                   bucket, storage, ledger>>

\* the process has opened the storage earlier runs left; no thread writes yet
InitThreads ==
    /\ EmptyQueue
    /\ EmptyWarehouse
    /\ lastOp = "init"
    /\ build = "src"
    /\ now = StorageStart
    /\ remote = [s \in ShipSymbols |-> NoShip]
    /\ bucket = <<>>
    /\ ledger = NoLedger
    /\ pc = [th \in Threads |-> "idle"]
    /\ call = [op |-> "threads", sym |-> "", at |-> [th \in Threads |-> NoTs],
               table |-> [th \in Threads |-> ""], cleanups |-> <<>>]
    /\ \E o, t \in EarlierRows : storage = [obs |-> o, tx |-> t, last |-> 0, writes |-> 0]

NextThreads ==
    \/ \E th \in Threads, table \in {"market_observations", "transactions"} :
          ThreadCheck(th, table)
    \/ \E th \in Threads : ThreadAssign(th)
    \/ \E th \in Threads : ThreadDelete(th)
    \/ \E th \in Threads : ThreadInsert(th)
    \/ ThreadLater(Hour \div 2)

SpecThreads == InitThreads /\ [][NextThreads]_vars

-----------------------------------------------------------------------------
(* flow/scheduler.py: run_scheduler running on without end.  The program    *)
(* compares timestamps with each other and with the clock, and sequence     *)
(* numbers with each other, and nothing else; so every timestamp is kept    *)
(* relative to the clock, which stands at NowLive, a timestamp further back *)
(* than NowLive counts as NowLive back, the snapshots' times and the        *)
(* sequence numbers of the heap are kept as their ranks.                    *)

\* bound: where the clock stands, and so how far back a timestamp is told
\* apart from an older one
NowLive == 20

\* a timestamp after the clock moved on by d
ShiftTs(ts, d) == IF ts = NoTs THEN NoTs ELSE IF ts > d THEN ts - d ELSE 0

ShiftShip(ship, d) ==
    IF ~ship.present THEN ship
    ELSE [ship EXCEPT !.arrival = ShiftTs(@, d), !.cd = ShiftTs(@, d)]

ShiftServer(rs, d) ==
    IF rs = NoShip THEN rs ELSE [rs EXCEPT !.arrival = ShiftTs(@, d), !.cd = ShiftTs(@, d)]

ShiftRuntime(rt, d) ==
    IF ~rt.present THEN rt ELSE [rt EXCEPT !.next_wakeup_ts = ShiftTs(@, d)]

RankSnapshots(mk) ==
    [w \in Waypoints |->
        IF ~mk[w].seen THEN mk[w]
        ELSE [mk[w] EXCEPT !.seenAt = Cardinality({v \in Waypoints :
                                          mk[v].seen /\ mk[v].seenAt < mk[w].seenAt})]]

ShiftHeap(h, d) ==
    [i \in DOMAIN h |->
        <<ShiftTs(h[i][1], d), 1 + Cardinality({j \in DOMAIN h : h[j][2] < h[i][2]}), h[i][3]>>]

\* what a step that ended with the clock at t leaves in the variables that
\* hold timestamps or sequence numbers
Relative(h, fleet, rts, servers, mk, t) ==
    [heap |-> ShiftHeap(h, t - NowLive),
     sequence |-> Len(h),
     ships |-> [s \in ShipSymbols |-> ShiftShip(fleet[s], t - NowLive)],
     runtime |-> [s \in ShipSymbols |-> ShiftRuntime(rts[s], t - NowLive)],
     remote |-> [s \in ShipSymbols |-> ShiftServer(servers[s], t - NowLive)],
     markets |-> RankSnapshots(mk)]

LiveState(n) ==
    /\ heap' = n.heap
    /\ sequence' = n.sequence
    /\ ships' = n.ships
    /\ runtime' = n.runtime
    /\ remote' = n.remote
    /\ markets' = n.markets

\* run_scheduler: the head is in the future; sleep and look again
LiveSleep ==
    /\ pc = "loop"
    /\ PeekNextPriority(heap) # NoTs
    /\ WaitS(PeekNextPriority(heap), now) > 0
    /\ LiveState(Relative(heap, ships, runtime, remote, markets,
                          now + SleepS(WaitS(PeekNextPriority(heap), now))))
    /\ lastOp' = "sleep"
    /\ call' = [op |-> "sleep", sym |-> "", ret |-> "", raised |-> FALSE]
    /\ UNCHANGED <<returned, pushLog, popLog, build, now, obs, wpKnown, pc, bucket, storage,
                   ledger>>

\* the clock moves on while the loop is at work on ships that are due
LiveElapse ==
    /\ pc = "loop"
    /\ PeekNextPriority(heap) # NoTs
    /\ WaitS(PeekNextPriority(heap), now) = 0
    /\ \A i \in DOMAIN heap : heap[i][1] >= SleepMax
    /\ LiveState(Relative(heap, ships, runtime, remote, markets, now + SleepMax))
    /\ lastOp' = "elapse"
    /\ call' = [op |-> "elapse", sym |-> "", ret |-> "", raised |-> FALSE]
    /\ UNCHANGED <<returned, pushLog, popLog, build, now, obs, wpKnown, pc, bucket, storage,
                   ledger>>

\* run_scheduler: the head is due and its ship is cached
TickDue ==
    /\ pc = "loop"
    /\ PeekNextPriority(heap) # NoTs
    /\ WaitS(PeekNextPriority(heap), now) = 0
    /\ ships[HeapTop(heap)[3]].present

\* what one pass of the loop for the due head leaves: the ship is popped,
\* decide_next_action and execute run, and the ship is pushed back
TickOutcome(good) ==
    LET Requeue(event, rest, d, o, r) ==
            [rel |-> Relative(IF o.raised \/ r.raised THEN rest
                              ELSE Push(rest, sequence, event, r.ts),
                              [ships EXCEPT ![event] = o.w.ship],
                              [runtime EXCEPT ![event] = o.w.rt],
                              [remote EXCEPT ![event] = o.w.rs],
                              o.w.mk, o.w.t),
             obs |-> o.w.ob,
             wpKnown |-> o.w.known,
             pc |-> IF o.raised \/ r.raised THEN "crashed" ELSE "loop",
             call |-> [op |-> "tick", sym |-> event, ret |-> d.ret,
                       raised |-> o.raised \/ r.raised]]
        Executed(event, rest, d, o) ==
            Requeue(event, rest, d, o, Readiness(o.w.rt, o.w.ship, o.w.t))
        Decided(event, rest, d, decided) ==
            IF d.ret = "RAISE" THEN Executed(event, rest, d, Outcome(decided, TRUE))
            ELSE Executed(event, rest, d, Execute(decided, d.ret, "ok", good))
        Dispatch(event, rest, d) ==
            Decided(event, rest, d,
                    [ship |-> d.ship, rt |-> [runtime[event] EXCEPT !.ctx = d.ctx],
                     rs |-> [remote[event] EXCEPT !.inv = d.inv],
                     mk |-> markets, ob |-> obs, known |-> d.known, t |-> now,
                     navs |-> <<>>])
    IN  Dispatch(HeapTop(heap)[3], HeapRest(heap), DecideNextAction(HeapTop(heap)[3], ApiOk))

\* run_scheduler: the head is due; pop it, decide, execute, push it back
LiveTick(good) ==
    /\ TickDue
    /\ lastOp' = "tick"
    /\ \E n \in {TickOutcome(good)} :
          /\ LiveState(n.rel)
          /\ obs' = n.obs
          /\ wpKnown' = n.wpKnown
          /\ pc' = n.pc
          /\ call' = n.call
    /\ UNCHANGED <<returned, pushLog, popLog, build, now, bucket, storage, ledger>>

\* a pass for the due head would change the state
TickChanges ==
    /\ TickDue
    /\ \/ lastOp # "tick"
       \/ \E good \in Goods :
            TickOutcome(good) #
                [rel |-> [heap |-> heap, sequence |-> sequence, ships |-> ships,
                          runtime |-> runtime, remote |-> remote, markets |-> markets],
                 obs |-> obs, wpKnown |-> wpKnown, pc |-> pc, call |-> call]

\* a ship of the running program, on the server and in its runtime: a miner
\* at the asteroid with room left or full, a probe or a miner under way, a
\* probe or a miner as the boot left it
LiveShip(server, state, wake, ctx) ==
    [server |-> server,
     rt |-> [present |-> TRUE, state |-> state, next_wakeup_ts |-> wake, ctx |-> ctx]]

LiveShips ==
    {LiveShip(BootShip("EXCAVATOR", "M1", 1, 0, 1), "MINING", NowLive,
              [NoContext EXCEPT !.destination = "MINE", !.mine_target = "M1"]),
     LiveShip(BootShip("EXCAVATOR", "M1", 1, 1, 1), "MINING", NowLive,
              [NoContext EXCEPT !.destination = "MINE", !.mine_target = "M1"]),
     LiveShip([BootShip("SATELLITE", "W2", 0, 0, 0)
               EXCEPT !.status = "IN_TRANSIT", !.arrival = NowLive + TravelTime(3, "CRUISE")],
              "NAVIGATING", NowLive + TravelTime(3, "CRUISE"),
              [NoContext EXCEPT !.destination = "PROBE_MARKET", !.target_market = "W2"]),
     LiveShip([BootShip("EXCAVATOR", "M1", 1, 0, 0)
               EXCEPT !.status = "IN_TRANSIT", !.arrival = NowLive + TravelTime(1, "CRUISE")],
              "NAVIGATING", NowLive + TravelTime(1, "CRUISE"),
              [NoContext EXCEPT !.destination = "MINE", !.mine_target = "M1"]),
     LiveShip(BootShip("SATELLITE", "W1", 0, 0, 0), "IDLE", NoTs, NoContext),
     LiveShip(BootShip("EXCAVATOR", "W1", 2, 0, 0), "IDLE", NoTs, NoContext)}

\* the second ship: none, a miner that is full, or a probe as the boot left it
LiveMates ==
    {[server |-> NoShip, rt |-> NoRuntime],
     LiveShip(BootShip("EXCAVATOR", "M1", 1, 1, 1), "MINING", NowLive,
              [NoContext EXCEPT !.destination = "MINE", !.mine_target = "M1"]),
     LiveShip(BootShip("SATELLITE", "W1", 0, 0, 0), "IDLE", NoTs, NoContext)}

\* the caches: of a new warehouse, and after visits to both marketplaces
LiveCaches == {c \in Caches : c.known = Waypoints => c.markets["W2"].seen}

\* the loop is running on a fleet of one or two ships, cached and queued
InitLive ==
    /\ returned = NoEntry
    /\ pushLog = <<>>
    /\ popLog = <<>>
    /\ lastOp = "init"
    /\ call = NoCall
    /\ bucket = <<>>
    /\ storage = NoStorage
    /\ ledger = NoLedger
    /\ pc = "loop"
    /\ build = "spec"
    /\ now = NowLive
    /\ \E c \in LiveCaches : markets = RankSnapshots(c.markets) /\ obs = c.obs /\ wpKnown = c.known
    /\ \E l1 \in LiveShips, l2 \in LiveMates :
          /\ remote = [s \in ShipSymbols |-> IF s = "S1" THEN l1.server ELSE l2.server]
          /\ ships = [s \in ShipSymbols |->
                        IF remote[s] = NoShip THEN NoShip ELSE FromDict(remote[s])]
          /\ runtime = [s \in ShipSymbols |-> IF s = "S1" THEN l1.rt ELSE l2.rt]
          /\ sequence = IF l2.rt.present THEN 2 ELSE 1
          /\ heap = IF l2.rt.present
                    THEN Push(Push(<<>>, 0, "S1", PushedPriority(l1.rt, ships["S1"], NowLive)),
                              1, "S2", PushedPriority(l2.rt, ships["S2"], NowLive))
                    ELSE Push(<<>>, 0, "S1", PushedPriority(l1.rt, ships["S1"], NowLive))

NextLive ==
    \/ LiveSleep
    \/ LiveElapse
    \/ \E good \in Goods : LiveTick(good)

\* the loop is one thread that is always running: a pass that can be made is
\* made, and the clock does not stand still.  The weak fairness of the tick is
\* written out, TickChanges being ENABLED <<\E good \in Goods : LiveTick(good)>>_vars
FairLive ==
    /\ WF_vars(LiveSleep)
    /\ WF_vars(LiveElapse)
    /\ \/ []<>(~TickChanges)
       \/ []<><<\E good \in Goods : LiveTick(good)>>_vars

SpecLive == InitLive /\ [][NextLive]_vars /\ FairLive

VisitAtTarget ==
    /\ lastOp = "tick" /\ call.ret = "PROBE_VISIT_MARKET" /\ ~call.raised
    /\ call.base.ctx.target_market # ""
    /\ call.base.ship.wp = call.base.ctx.target_market
    /\ call.base.ship.status # "IN_TRANSIT"

VisitFromAfar ==
    /\ lastOp = "tick" /\ call.ret = "PROBE_VISIT_MARKET" /\ ~call.raised
    /\ call.base.ctx.target_market # ""
    /\ call.base.ship.wp # call.base.ctx.target_market
    /\ call.base.ship.status # "IN_TRANSIT"

C33_OnlySellingExcavatorsSell ==
    [][(/\ lastOp' = "tick" /\ call'.ret = "PROBE_VISIT_MARKET" /\ ~call'.raised
        /\ ~(call'.base.ship.role = "EXCAVATOR" /\ call'.base.ctx.selling)) =>
          /\ remote'[call'.sym].inv = remote[call'.sym].inv
          /\ (/\ call'.base.ship.wp = call'.base.ctx.target_market
              /\ call'.base.ship.status # "IN_TRANSIT") =>
                ServerShip(remote'[call'.sym], now') = ServerShip(remote[call'.sym], now)]_vars

\* a docked probe visited the market it stood at and is still docked
C33_Witness ==
    /\ VisitAtTarget
    /\ ships[call.sym].role = "SATELLITE"
    /\ remote[call.sym].status = "DOCKED"
    /\ markets[remote[call.sym].wp].seen


\* the sell calls of the last dock_and_sell_all_cargo that were answered with
\* a sale, and those answered with an error object
SoldCalls(c) == SelectSeq(c.sells, LAMBDA x : x.err = "")
RefusedCalls(c) == SelectSeq(c.sells, LAMBDA x : x.err # "")

C34_Witness ==
    /\ lastOp = "sell_all" /\ call.market = "W2"
    /\ Len(SoldCalls(call)) = 1 /\ call.sells[1].good = "ICE"
    /\ remote[call.sym].inv["ORE"] > 0 /\ remote[call.sym].inv["ICE"] = 0
    /\ remote[call.sym].status = "IN_ORBIT"

(* C34: dock_and_sell_all_cargo issues a sell call only for inventory items  *)
(* whose symbol the freshly fetched market lists with sellPrice > 0; the     *)
(* items the market will not buy stay in the cargo, and the flow ends with   *)
(* the ship in orbit, at the server and in the cache.                        *)
C34_SellsOnlyWhatTheMarketBuys ==
    [][lastOp' = "sell_all" =>
          /\ \A i \in DOMAIN call'.sells :
                /\ ServerMarket(call'.market).sell[call'.sells[i].good] > 0
                /\ call'.sells[i].units = remote[call'.sym].inv[call'.sells[i].good]
                /\ call'.sells[i].units > 0
          /\ \A g \in Goods : ServerMarket(call'.market).sell[g] = 0 =>
                remote'[call'.sym].inv[g] = remote[call'.sym].inv[g]
          /\ remote'[call'.sym].status = "IN_ORBIT"
          /\ ships'[call'.sym].status = "IN_ORBIT"]_vars

(* C35: for every successful sale of dock_and_sell_all_cargo, the insert of  *)
(* the transaction returning normally, both a line of the trade log and a    *)
(* row of the transactions table are written, and Warehouse.credits is the   *)
(* agent's credits of the response.                                          *)
C35_SaleWritesLogLineAndRow ==
    [][(lastOp' = "sell_all" /\ call'.db = "ok") =>
          /\ Len(ledger'.trades) = Len(ledger.trades) + Len(SoldCalls(call'))
          /\ Len(storage'.tx) = Len(storage.tx) + Len(SoldCalls(call'))
          /\ Len(SoldCalls(call')) > 0 => ledger'.credits = ledger'.agent]_vars

C39_Witness ==
    /\ lastOp = "sell_all"
    /\ Len(call.sells) = 2 /\ call.sells[1].err # "" /\ call.sells[2].err = ""
    /\ Len(storage.tx) + Len(ledger.trades) = 1
    /\ ledger.credits > 100

(* C39: a sell call of dock_and_sell_all_cargo answered with an error object *)
(* writes no transaction row and no trade-log line and leaves the warehouse  *)
(* credits alone, and the loop goes on to the next item: rows and lines are  *)
(* written for the sales only, and every item the market buys is offered.    *)
C39_RefusedSaleWritesNothing ==
    [][(lastOp' = "sell_all" /\ Len(RefusedCalls(call')) > 0) =>
          /\ (Len(storage'.tx) - Len(storage.tx)) + (Len(ledger'.trades) - Len(ledger.trades))
                = Len(SoldCalls(call'))
          /\ Len(SoldCalls(call')) = 0 =>
                /\ ledger'.credits = ledger.credits
                /\ storage'.tx = storage.tx
                /\ ledger'.trades = ledger.trades
          /\ {call'.sells[i].good : i \in DOMAIN call'.sells} =
                {g \in Goods : /\ ServerMarket(call'.market).sell[g] > 0
                               /\ remote[call'.sym].inv[g] > 0}]_vars

(* C40: with two threads writing to the store, the retention cleanup runs   *)
(* at most once per hour: any two runs of the DELETEs belong to calls that  *)
(* read the clock at least an hour apart, so of two writers arriving        *)
(* together only one performs the cleanup.                                  *)
C40_CleanupAtMostOncePerHour ==
    call.op = "threads" =>
        \A i, j \in DOMAIN call.cleanups :
            i < j => call.cleanups[j].at - call.cleanups[i].at >= Hour

C37_NavigatingEnds ==
    \A s \in ShipSymbols :
        (runtime[s].present /\ runtime[s].state = "NAVIGATING")
            ~> (runtime[s].present /\ runtime[s].state # "NAVIGATING")

(* C38: with the clock moving on and the loop running, every ship that is   *)
(* in the event queue is eventually popped and dispatched, whatever the     *)
(* other ships are re-enqueued with.                                        *)
C38_NoStarvation ==
    \A s \in ShipSymbols :
        (pc = "loop" /\ \E i \in DOMAIN heap : heap[i][3] = s)
            ~> ((lastOp = "tick" /\ call.sym = s) \/ pc # "loop")

\* a ship was dispatched while the other one, ready only later, waited
C38_Witness ==
    /\ lastOp = "tick" /\ call.sym = "S1" /\ call.ret = "NOOP"
    /\ \E i \in DOMAIN heap : heap[i][3] = "S2" /\ heap[i][1] > now
    /\ \E i \in DOMAIN heap : heap[i][3] = "S1" /\ heap[i][1] = now

=========================================================================
